---- MODULE Spec2Model ----
(***************************************************************************)
(* State-machine model of the LSM storage engine (src/src/engine):         *)
(* MemTable, write-ahead log, SSTable files, level manager, leveled        *)
(* compactor, the flush path of LSMTree and the background compaction      *)
(* worker.                                                                 *)
(***************************************************************************)
EXTENDS Integers, Sequences, FiniteSets, TLC

\* ----------------------------------------------------------------------
\* Bounds of the model
\* ----------------------------------------------------------------------
\* keys are the strings "key1" < "key2" < ..., written 1..MaxKey
MaxKey == 2
\* payloads are the strings "value1", "value2", ..., written 1..MaxVal
MaxVal == 2
\* sequence numbers handed out by either counter stay below MaxSeq
MaxSeq == 2
\* LSMConfig.memtable_size_limit, as small as in test_wal_with_flush
MemtableSizeLimit == 2
\* the writer stops appending when wal.log holds MaxWal entries
MaxWal == 2
\* the process is killed and the directory re-opened at most MaxRestarts times
MaxRestarts == 1

Keys == 1..MaxKey
Payloads == 1..MaxVal

\* String::new(), the smallest string
EmptyKey == 0

\* ----------------------------------------------------------------------
\* Value, WALEntry, results
\* ----------------------------------------------------------------------
Data(s) == <<"Data", s>>
Tombstone == <<"Tombstone">>

WALInsert(key, value) == [type |-> "Insert", key |-> key, value |-> value]
WALDelete(key) == [type |-> "Delete", key |-> key, value |-> 0]

\* DbResult<Option<String>>
OkSome(s) == [tag |-> "Some", val |-> s]
OkNone == [tag |-> "None", val |-> 0]
ErrInvalidOperation == [tag |-> "InvalidOperation", val |-> 0]
ErrKeyNotFound == [tag |-> "KeyNotFound", val |-> 0]

IsErr(r) == r.tag \in {"InvalidOperation", "KeyNotFound"}

\* ----------------------------------------------------------------------
\* BTreeMap<String, Value>
\* ----------------------------------------------------------------------
EmptyMap == [k \in {} |-> Tombstone]

MapPut(m, key, value) ==
    [k \in (DOMAIN m) \cup {key} |-> IF k = key THEN value ELSE m[k]]

RECURSIVE SetMin(_)
SetMin(S) ==
    LET x == CHOOSE y \in S : TRUE
    IN  IF S = {x} THEN x
        ELSE LET m == SetMin(S \ {x}) IN IF x < m THEN x ELSE m

RECURSIVE SetMax(_)
SetMax(S) ==
    LET x == CHOOSE y \in S : TRUE
    IN  IF S = {x} THEN x
        ELSE LET m == SetMax(S \ {x}) IN IF x > m THEN x ELSE m

\* the keys of a BTreeMap in iteration (ascending) order
RECURSIVE KeysInOrder(_)
KeysInOrder(S) ==
    IF S = {} THEN <<>>
    ELSE LET lo == SetMin(S) IN <<lo>> \o KeysInOrder(S \ {lo})

\* ----------------------------------------------------------------------
\* MemTable (src/src/lib.rs)
\* ----------------------------------------------------------------------
MemTable_new == EmptyMap
MemTable_insert(mt, key, value) == MapPut(mt, key, Data(value))
MemTable_insert_tombstone(mt, key) == MapPut(mt, key, Tombstone)
MemTable_len(mt) == Cardinality(DOMAIN mt)
MemTable_is_empty_always_false(mt) == FALSE
MemTable_is_empty(mt) == DOMAIN mt = {}

\* MemTable::get: a tombstone or a missing key is a KeyNotFound error
MemTable_get(mt, key) ==
    IF key \in DOMAIN mt /\ mt[key][1] = "Data" THEN OkSome(mt[key][2])
    ELSE ErrKeyNotFound

\* ----------------------------------------------------------------------
\* WAL (src/src/engine/wal.rs): the file is the sequence of its frames, a
\* frame being an entry or, where a write stopped early, the head of one
\* ----------------------------------------------------------------------
\* a frame cut within its length prefix ("length") or within its payload
\* ("payload")
PartialFrame(cut, entry) == [type |-> "Partial", cut |-> cut, entry |-> entry]
IsPartial(frame) == frame.type = "Partial"

\* WAL.writer, a BufWriter<File>: the entries whose bytes it still holds, and
\* whether the head of the first of them is in the file already
WALWriter(buffer, continues) == [buffer |-> buffer, continues |-> continues]
WAL_new == WALWriter(<<>>, FALSE)

\* the file once the BufWriter has written out its buffer
WAL_flushed(w, writer) ==
    (IF writer.continues THEN SubSeq(w, 1, Len(w) - 1) ELSE w) \o writer.buffer

\* WAL::append returning Ok: the frame goes through the buffer to the file
WAL_append(w, writer, entry) == WAL_flushed(w, WALWriter(Append(writer.buffer, entry), writer.continues))

\* WAL::read_all: the entries up to the end of the file or to a frame cut in
\* its length prefix
RECURSIVE WAL_read_all(_)
WAL_read_all(w) ==
    IF w = <<>> \/ IsPartial(Head(w)) THEN <<>>
    ELSE <<Head(w)>> \o WAL_read_all(Tail(w))

\* WAL::read_all returns Ok: read_exact of a length prefix meets the end of
\* the file (UnexpectedEof); every other failed read is an Err
RECURSIVE WAL_read_all_ok(_)
WAL_read_all_ok(w) ==
    IF w = <<>> THEN TRUE
    ELSE IF IsPartial(Head(w)) THEN Head(w).cut = "length" /\ Tail(w) = <<>>
    ELSE WAL_read_all_ok(Tail(w))

WAL_truncate(w) == <<>>

\* LSMTree::replay_wal: apply the entries in file order to the MemTable
RECURSIVE replay_entries(_, _)
replay_entries(mt, entries) ==
    IF entries = <<>> THEN mt
    ELSE LET e == Head(entries)
             mt1 == IF e.type = "Insert"
                    THEN MemTable_insert(mt, e.key, e.value)
                    ELSE MemTable_insert_tombstone(mt, e.key)
         IN  replay_entries(mt1, Tail(entries))

\* ----------------------------------------------------------------------
\* BloomFilter (src/src/engine/bloom.rs)
\* ----------------------------------------------------------------------
\* ceil(-n * ln(0.01) / ln(2)^2) = ceil(n * 9.58506)
Bloom_bit_size(expected_items) == (expected_items * 958506 + 99999) \div 100000

\* ceil((bit_size / n) * ln 2); NaN (n = 0) casts to 0
Bloom_hash_functions(expected_items) ==
    IF expected_items = 0 THEN 0
    ELSE (Bloom_bit_size(expected_items) * 693147 + expected_items * 1000000 - 1)
             \div (expected_items * 1000000)

BloomFilter_new(expected_items) ==
    [bits |-> {},
     len |-> Bloom_bit_size(expected_items),
     hash_functions |-> Bloom_hash_functions(expected_items)]

\* two 64-bit hashes mixed; the model keeps a small deterministic hash
hash_item(item, seed) == (item * 31 + seed * 17 + item * seed * 7 + 3)

get_hash_positions(bf, item) ==
    LET hash1 == hash_item(item, 0)
        hash2 == hash_item(item, 1)
    IN  {(hash1 + i * hash2) % bf.len : i \in 0..(bf.hash_functions - 1)}

\* an insert that sets the bit of the first hash position only
Bloom_insert_first_position(bf, item) ==
    [bf EXCEPT !.bits = bf.bits \cup {hash_item(item, 0) % bf.len}]

Bloom_insert(bf, item) ==
    [bf EXCEPT !.bits = bf.bits \cup get_hash_positions(bf, item)]

Bloom_contains(bf, item) == get_hash_positions(bf, item) \subseteq bf.bits

RECURSIVE Bloom_insert_all(_, _)
Bloom_insert_all(bf, keyseq) ==
    IF keyseq = <<>> THEN bf
    ELSE Bloom_insert_all(Bloom_insert(bf, Head(keyseq)), Tail(keyseq))

\* ----------------------------------------------------------------------
\* The data directory: file name -> file contents
\* ----------------------------------------------------------------------
\* format!("sstable_{:06}.sst", id), written by flush_memtable
FlushPath(id) == [form |-> "sstable_", level |-> 0, seq |-> id]
\* format!("sstable_L{:02}_{:06}.sst", target_level, id), written by merge_sstables
CompactPath(level, id) == [form |-> "sstable_L", level |-> level, seq |-> id]

\* byte order of the file names: a digit sorts before 'L'
PathLess(p, q) ==
    IF p.form # q.form THEN p.form = "sstable_"
    ELSE IF p.level # q.level THEN p.level < q.level
    ELSE p.seq < q.seq

NoFiles == [p \in {} |-> [ok |-> FALSE, records |-> <<>>]]

FilePut(fs, path, contents) ==
    [p \in (DOMAIN fs) \cup {path} |-> IF p = path THEN contents ELSE fs[p]]

\* std::fs::remove_file; a missing file is an error the caller only logs
FileRemove(fs, path) == [p \in (DOMAIN fs) \ {path} |-> fs[p]]

\* Vec<Record> of a BTreeMap: the records in ascending key order
records_of(data) ==
    LET ks == KeysInOrder(DOMAIN data)
    IN  [i \in 1..Len(ks) |-> [key |-> ks[i], value |-> data[ks[i]]]]

\* ----------------------------------------------------------------------
\* SSTable (src/src/engine/sstable.rs)
\* ----------------------------------------------------------------------
\* File::create + bincode::serialize_into of the sorted records
SSTable_write(fs, path, data) ==
    FilePut(fs, path, [ok |-> TRUE, records |-> records_of(data)])

\* a file whose write was cut short: it does not deserialize
PartialFile == [ok |-> FALSE, records |-> <<>>]

\* the handle returned by SSTable::create_with_level
SSTable_create_with_level(path, data, level) ==
    LET ks == KeysInOrder(DOMAIN data)
    IN  [file_path |-> path,
         record_count |-> Len(ks),
         bloom_filter |-> Bloom_insert_all(BloomFilter_new(Len(ks)), ks),
         level |-> level,
         min_key |-> IF ks = <<>> THEN EmptyKey ELSE ks[1],
         max_key |-> IF ks = <<>> THEN EmptyKey ELSE ks[Len(ks)]]

\* load_records_from_path: File::open + bincode::deserialize_from
load_records_ok(fs, path) == path \in DOMAIN fs /\ fs[path].ok
load_records(fs, path) == fs[path].records

\* the handle returned by SSTable::open for a readable file
SSTable_open(fs, path) ==
    LET records == load_records(fs, path)
        ks == [i \in 1..Len(records) |-> records[i].key]
    IN  [file_path |-> path,
         record_count |-> Len(records),
         bloom_filter |-> Bloom_insert_all(BloomFilter_new(Len(records)), ks),
         level |-> 0,
         min_key |-> IF records = <<>> THEN EmptyKey ELSE records[1].key,
         max_key |-> IF records = <<>> THEN EmptyKey ELSE records[Len(records)].key]

SSTable_might_contain(sst, key) == Bloom_contains(sst.bloom_filter, key)

\* the scan loop of SSTable::get from record i on
RECURSIVE scan_records(_, _, _)
scan_records(records, key, i) ==
    IF i > Len(records) THEN OkNone
    ELSE IF records[i].key = key
         THEN IF records[i].value[1] = "Data"
              THEN OkSome(records[i].value[2])
              ELSE OkNone
         ELSE IF records[i].key > key THEN OkNone
         ELSE scan_records(records, key, i + 1)

SSTable_get(fs, sst, key) ==
    IF ~Bloom_contains(sst.bloom_filter, key) THEN OkNone
    ELSE IF ~load_records_ok(fs, sst.file_path) THEN ErrInvalidOperation
    ELSE scan_records(load_records(fs, sst.file_path), key, 1)

\* ----------------------------------------------------------------------
\* LevelManager (src/src/engine/level.rs)
\* ----------------------------------------------------------------------
level_0_file_limit == 4
level_size_multiplier == 10
Level1MaxSize == 10 * 1024 * 1024

NoLevels == [l \in {} |-> <<>>]

LevelManager_new == [levels |-> NoLevels, max_level |-> 0]

\* Vec::sort_by(|a, b| a.min_key().cmp(b.min_key())), a stable sort
RECURSIVE sort_by_min_key(_)
sort_by_min_key(list) ==
    IF list = <<>> THEN <<>>
    ELSE LET n == Len(list)
             x == list[n]
             sorted == sort_by_min_key(SubSeq(list, 1, n - 1))
             NotAfter(s) == s.min_key <= x.min_key
             After(s) == s.min_key > x.min_key
         IN  SelectSeq(sorted, NotAfter) \o <<x>> \o SelectSeq(sorted, After)

get_sstables_at_level(lm, level) ==
    IF level \in DOMAIN lm.levels THEN lm.levels[level] ELSE <<>>

\* an add_sstable that pushes and never sorts
add_sstable_unsorted(lm, sstable, level) ==
    LET pushed == Append(get_sstables_at_level(lm, level), sstable)
    IN  [levels |-> [l \in (DOMAIN lm.levels) \cup {level} |->
                        IF l = level THEN pushed ELSE lm.levels[l]],
         max_level |-> IF level > lm.max_level THEN level ELSE lm.max_level]

\* an add_sstable that puts the SSTable in the place of the level's list
add_sstable_replacing_level(lm, sstable, level) ==
    [levels |-> [l \in (DOMAIN lm.levels) \cup {level} |->
                    IF l = level THEN <<sstable>> ELSE lm.levels[l]],
     max_level |-> IF level > lm.max_level THEN level ELSE lm.max_level]

add_sstable(lm, sstable, level) ==
    LET pushed == Append(get_sstables_at_level(lm, level), sstable)
        list == IF level > 0 THEN sort_by_min_key(pushed) ELSE pushed
    IN  [levels |-> [l \in (DOMAIN lm.levels) \cup {level} |->
                        IF l = level THEN list ELSE lm.levels[l]],
         max_level |-> IF level > lm.max_level THEN level ELSE lm.max_level]

RECURSIVE add_sstables(_, _, _)
add_sstables(lm, sstables, level) ==
    IF sstables = <<>> THEN lm
    ELSE add_sstables(add_sstable(lm, Head(sstables), level), Tail(sstables), level)

RECURSIVE get_all_from(_, _)
get_all_from(lm, level) ==
    IF level > lm.max_level THEN <<>>
    ELSE get_sstables_at_level(lm, level) \o get_all_from(lm, level + 1)

get_all_sstables(lm) == get_all_from(lm, 0)

RECURSIVE SumLen(_)
SumLen(list) ==
    IF list = <<>> THEN 0 ELSE Head(list).record_count + SumLen(Tail(list))

get_level_size(lm, level) == SumLen(get_sstables_at_level(lm, level))

RECURSIVE Pow(_, _)
Pow(b, e) == IF e = 0 THEN 1 ELSE b * Pow(b, e - 1)

get_max_level_size(level) ==
    IF level = 0 THEN level_0_file_limit
    ELSE IF level = 1 THEN Level1MaxSize
    ELSE Level1MaxSize * Pow(level_size_multiplier, level - 1)

\* a level 0 that is due only when it holds more files than the limit
should_compact_above_limit(lm, level) ==
    IF level = 0
    THEN 0 \in DOMAIN lm.levels /\ Len(lm.levels[0]) > level_0_file_limit
    ELSE get_level_size(lm, level) >= get_max_level_size(level)

should_compact(lm, level) ==
    IF level = 0
    THEN 0 \in DOMAIN lm.levels /\ Len(lm.levels[0]) >= level_0_file_limit
    ELSE get_level_size(lm, level) >= get_max_level_size(level)

get_compaction_candidates(lm, level) ==
    IF level = 0 THEN get_sstables_at_level(lm, 0)
    ELSE IF get_level_size(lm, level) < get_max_level_size(level) THEN <<>>
    ELSE get_sstables_at_level(lm, level)

\* an overlap test that leaves out an SSTable touching the range at its end
get_overlapping_sstables_strict(lm, level, min_key, max_key) ==
    LET Overlaps(s) == s.max_key > min_key /\ s.min_key < max_key
    IN  SelectSeq(get_sstables_at_level(lm, level), Overlaps)

get_overlapping_sstables(lm, level, min_key, max_key) ==
    LET Overlaps(s) == s.max_key >= min_key /\ s.min_key <= max_key
    IN  SelectSeq(get_sstables_at_level(lm, level), Overlaps)

\* one iteration of the loop of remove_sstables
remove_one(levels, sstable) ==
    LET level == sstable.level
    IN  IF level \notin DOMAIN levels THEN levels
        ELSE LET Keep(s) == s.file_path # sstable.file_path
                 kept == SelectSeq(levels[level], Keep)
             IN  IF kept = <<>>
                 THEN [l \in (DOMAIN levels) \ {level} |-> levels[l]]
                 ELSE [levels EXCEPT ![level] = kept]

RECURSIVE remove_all(_, _)
remove_all(levels, sstables) ==
    IF sstables = <<>> THEN levels
    ELSE remove_all(remove_one(levels, Head(sstables)), Tail(sstables))

\* a remove_sstables that leaves max_level as it is
remove_sstables_keeping_max_level(lm, sstables_to_remove) ==
    [levels |-> remove_all(lm.levels, sstables_to_remove), max_level |-> lm.max_level]

remove_sstables(lm, sstables_to_remove) ==
    LET levels == remove_all(lm.levels, sstables_to_remove)
    IN  [levels |-> levels,
         max_level |-> IF DOMAIN levels = {} THEN 0 ELSE SetMax(DOMAIN levels)]

\* ----------------------------------------------------------------------
\* LeveledCompactor (src/src/engine/leveled_compaction.rs)
\* ----------------------------------------------------------------------
MAX_SSTABLE_SIZE == 64 * 1024 * 1024

\* String::len of a key ("key1") and of a payload ("value1")
key_len(key) == 4
payload_len(s) == 6

estimated_size(key, value) ==
    key_len(key) + (IF value[1] = "Data" THEN payload_len(value[2]) ELSE 0)

\* all_records.insert(record.key, record.value) for the records of one file
RECURSIVE insert_records(_, _)
insert_records(all_records, records) ==
    IF records = <<>> THEN all_records
    ELSE insert_records(MapPut(all_records, Head(records).key, Head(records).value),
                        Tail(records))

\* the loading loop of merge_sstables: the inputs in list order, a later
\* record replaces an earlier one
RECURSIVE load_all_records(_, _, _)
load_all_records(fs, all_records, sstables) ==
    IF sstables = <<>> THEN all_records
    ELSE load_all_records(fs,
             insert_records(all_records, load_records(fs, Head(sstables).file_path)),
             Tail(sstables))

\* all_records.retain(|_, value| !matches!(value, Value::Tombstone))
retain_live(all_records) ==
    [k \in {x \in DOMAIN all_records : all_records[x][1] # "Tombstone"} |->
        all_records[k]]

\* the splitting loop of merge_sstables: the data of the output files, in order
RECURSIVE split_records(_, _, _, _)
split_records(all_records, ks, current_data, current_size) ==
    IF ks = <<>>
    THEN IF DOMAIN current_data # {} THEN <<current_data>> ELSE <<>>
    ELSE LET key == Head(ks)
             value == all_records[key]
             size == estimated_size(key, value)
         IN  IF current_size + size > MAX_SSTABLE_SIZE /\ DOMAIN current_data # {}
             THEN <<current_data>> \o
                  split_records(all_records, Tail(ks), MapPut(EmptyMap, key, value), size)
             ELSE split_records(all_records, Tail(ks),
                                MapPut(current_data, key, value), current_size + size)

\* SSTable::create_with_level for every output, ids taken from next_sstable_id()
RECURSIVE write_outputs(_, _, _, _)
write_outputs(fs, next_id, chunks, target_level) ==
    IF chunks = <<>> THEN [files |-> fs, next_id |-> next_id, new |-> <<>>]
    ELSE LET path == CompactPath(target_level, next_id)
             rest == write_outputs(SSTable_write(fs, path, Head(chunks)),
                                   next_id + 1, Tail(chunks), target_level)
         IN  [rest EXCEPT !.new =
                 <<SSTable_create_with_level(path, Head(chunks), target_level)>> \o @]

\* std::fs::remove_file of every input
RECURSIVE delete_files(_, _)
delete_files(fs, sstables) ==
    IF sstables = <<>> THEN fs
    ELSE delete_files(FileRemove(fs, Head(sstables).file_path), Tail(sstables))

merge_sstables(fs, next_id, sstables, target_level) ==
    IF sstables = <<>>
    THEN [ok |-> TRUE, files |-> fs, next_id |-> next_id, new |-> <<>>]
    ELSE IF \E i \in 1..Len(sstables) : ~load_records_ok(fs, sstables[i].file_path)
    THEN [ok |-> FALSE, files |-> fs, next_id |-> next_id, new |-> <<>>]
    ELSE LET all_records == retain_live(load_all_records(fs, EmptyMap, sstables))
         IN  IF DOMAIN all_records = {}
             THEN [ok |-> TRUE, files |-> fs, next_id |-> next_id, new |-> <<>>]
             ELSE LET chunks == split_records(all_records,
                                    KeysInOrder(DOMAIN all_records), EmptyMap, 0)
                      out == write_outputs(fs, next_id, chunks, target_level)
                  IN  [ok |-> TRUE,
                       files |-> delete_files(out.files, sstables),
                       next_id |-> out.next_id,
                       new |-> out.new]

MinKeyOf(sstables) == SetMin({sstables[i].min_key : i \in 1..Len(sstables)})
MaxKeyOf(sstables) == SetMax({sstables[i].max_key : i \in 1..Len(sstables)})

\* the common body of both compactions: merge the source files and the
\* overlapping files of the target level, unregister them, register the outputs
compact_into(lm, fs, next_id, source_sstables, target_level) ==
    IF source_sstables = <<>>
    THEN [ok |-> TRUE, lm |-> lm, files |-> fs, next_id |-> next_id]
    ELSE LET overlapping == get_overlapping_sstables(lm, target_level,
                                MinKeyOf(source_sstables), MaxKeyOf(source_sstables))
             all_sstables == source_sstables \o overlapping
             merged == merge_sstables(fs, next_id, all_sstables, target_level)
         IN  IF ~merged.ok
             THEN [ok |-> FALSE, lm |-> lm, files |-> fs, next_id |-> next_id]
             ELSE [ok |-> TRUE,
                   lm |-> add_sstables(remove_sstables(lm, all_sstables),
                                       merged.new, target_level),
                   files |-> merged.files,
                   next_id |-> merged.next_id]

compact_level_0_to_1(lm, fs, next_id) ==
    compact_into(lm, fs, next_id, get_sstables_at_level(lm, 0), 1)

compact_level_n_to_n_plus_1(lm, fs, next_id, level) ==
    compact_into(lm, fs, next_id, get_compaction_candidates(lm, level), level + 1)

compact_level(lm, fs, next_id, level) ==
    IF level = 0 THEN compact_level_0_to_1(lm, fs, next_id)
    ELSE compact_level_n_to_n_plus_1(lm, fs, next_id, level)

\* ----------------------------------------------------------------------
\* LSMTree (src/src/engine/lsm.rs): pure parts
\* ----------------------------------------------------------------------
\* the loop of LSMTree::get over get_all_sstables()
RECURSIVE get_from_sstables(_, _, _)
get_from_sstables(fs, sstables, key) ==
    IF sstables = <<>> THEN OkNone
    ELSE IF ~SSTable_might_contain(Head(sstables), key)
         THEN get_from_sstables(fs, Tail(sstables), key)
         ELSE LET r == SSTable_get(fs, Head(sstables), key)
              IN  IF r.tag = "None"
                  THEN get_from_sstables(fs, Tail(sstables), key)
                  ELSE r

\* a get that asks the MemTable through MemTable::get and propagates its error
LSMTree_get_propagating(mt, lm, fs, key) ==
    IF key \in DOMAIN mt THEN MemTable_get(mt, key)
    ELSE IF get_from_sstables(fs, get_all_sstables(lm), key).tag = "None"
         THEN ErrKeyNotFound
         ELSE get_from_sstables(fs, get_all_sstables(lm), key)

LSMTree_get(mt, lm, fs, key) ==
    IF key \in DOMAIN mt
    THEN IF mt[key][1] = "Data" THEN OkSome(mt[key][2]) ELSE OkNone
    ELSE get_from_sstables(fs, get_all_sstables(lm), key)

\* sstable_files.sort(); sstable_files.reverse()
RECURSIVE sorted_reversed(_)
sorted_reversed(paths) ==
    IF paths = {} THEN <<>>
    ELSE LET hi == CHOOSE p \in paths : \A q \in paths \ {p} : PathLess(q, p)
         IN  <<hi>> \o sorted_reversed(paths \ {hi})

\* the loading loop of load_existing_sstables: a file that fails to open is skipped
RECURSIVE open_each(_, _)
open_each(fs, paths) ==
    IF paths = <<>> THEN <<>>
    ELSE IF load_records_ok(fs, Head(paths))
         THEN <<SSTable_open(fs, Head(paths))>> \o open_each(fs, Tail(paths))
         ELSE open_each(fs, Tail(paths))

load_existing_sstables(fs) == open_each(fs, sorted_reversed(DOMAIN fs))

\* file_stem().strip_prefix("sstable_").parse::<u64>() succeeds only for the
\* flush form of the file name
determine_next_id(sstables) ==
    LET ids == {sstables[i].file_path.seq :
                   i \in {j \in 1..Len(sstables) : sstables[j].file_path.form = "sstable_"}}
    IN  IF ids = {} THEN 0 ELSE SetMax(ids) + 1

\* the registration loop of with_config
RECURSIVE register_existing(_, _)
register_existing(lm, sstables) ==
    IF sstables = <<>> THEN lm
    ELSE register_existing(add_sstable(lm, Head(sstables), Head(sstables).level),
                           Tail(sstables))

\* the statements of flush_memtable after the emptiness check, in order
flush_memtable_order == <<"create", "add", "clear", "truncate">>

StepIndex(step) == CHOOSE i \in 1..Len(flush_memtable_order) : flush_memtable_order[i] = step
IsLastStep(step) == StepIndex(step) = Len(flush_memtable_order)
StepAfter(step) == flush_memtable_order[StepIndex(step) + 1]

\* if memtable_len >= self.config.memtable_size_limit
needs_flush_strict(len) == len > MemtableSizeLimit
needs_flush(len) == len >= MemtableSizeLimit

\* ----------------------------------------------------------------------
\* The locks of LSMTree and the order in which each call takes and gives
\* them up. A guard lives to the end of its block; the guards of one block
\* are dropped in the reverse order of their declaration
\* ----------------------------------------------------------------------
Threads == {"writer", "reader", "worker"}
LockRank == [wal |-> 1, memtable |-> 2, level_manager |-> 3, leveled_compactor |-> 4]

acquire(lock, mode) == [do |-> "acquire", lock |-> lock, mode |-> mode]
release(lock, mode) == [do |-> "release", lock |-> lock, mode |-> mode]
scoped(lock, mode) == <<acquire(lock, mode), release(lock, mode)>>

\* if let Some(ref wal) = self.wal { let mut wal_guard = wal.write(); ... }
wal_locks(enable_wal) == IF enable_wal THEN scoped("wal", "write") ELSE <<>>

\* flush_memtable on a MemTable with entries: is_empty, memtable_data,
\* add_sstable, the new MemTable, the truncation of the WAL
flush_memtable_locks(enable_wal) ==
    scoped("memtable", "read") \o scoped("memtable", "read")
        \o scoped("level_manager", "write") \o scoped("memtable", "write")
        \o wal_locks(enable_wal)

\* insert and delete: the append, the MemTable, its length, and the flush of
\* a MemTable that reached the limit
mutation_locks(enable_wal) ==
    LET to_memtable == wal_locks(enable_wal) \o scoped("memtable", "write")
                           \o scoped("memtable", "read")
    IN  {to_memtable, to_memtable \o flush_memtable_locks(enable_wal)}
insert_locks(enable_wal) == mutation_locks(enable_wal)
delete_locks(enable_wal) == mutation_locks(enable_wal)

\* flush: is_empty, and flush_memtable if it is not
flush_locks(enable_wal) ==
    {scoped("memtable", "read"),
     scoped("memtable", "read") \o flush_memtable_locks(enable_wal)}

\* get: the MemTable in its own block, then the level manager to the return
get_locks == {scoped("memtable", "read"),
              scoped("memtable", "read") \o scoped("level_manager", "read")}

stats_locks_level_manager_first ==
    {<<acquire("level_manager", "read"), acquire("memtable", "read"),
       release("memtable", "read"), release("level_manager", "read")>>}

\* stats: both read guards live to the return
stats_locks ==
    {<<acquire("memtable", "read"), acquire("level_manager", "read"),
       release("level_manager", "read"), release("memtable", "read")>>}

\* one turn of the loop of start_background_compaction
worker_locks ==
    <<acquire("level_manager", "write"), acquire("leveled_compactor", "write"),
      release("leveled_compactor", "write"), release("level_manager", "write")>>

NoThreads == [t \in Threads |-> [call |-> "none", todo |-> <<>>, held |-> {}]]

\* ----------------------------------------------------------------------
\* State
\* ----------------------------------------------------------------------
VARIABLES
    config,             \* LSMConfig: enable_wal, background_compaction
    files,              \* the .sst files of the data directory
    wal_file,           \* the contents of wal.log
    wal_writer,         \* WAL.writer: what the BufWriter still holds
    memtable,           \* LSMTree.memtable
    level_manager,      \* LSMTree.level_manager
    next_sstable_id,    \* LSMTree.next_sstable_id
    compactor_next_id,  \* LeveledCompactor.next_sstable_id
    pc,                 \* position of the writer thread: "idle" or a flush step
    op,                 \* the call the writer thread is in, with its locals
    channel,            \* CheckCompaction messages not yet received by the worker
    worker,             \* the thread of start_background_compaction
    threads,            \* per thread: the call it is in, the lock steps still
                        \* to do, the guards it holds
    last_op,            \* the last call that returned on the writer thread
    logical,            \* key -> its latest mutation the engine returned Ok for
    restarts            \* how often the directory has been re-opened

vars == <<config, files, wal_file, wal_writer, memtable, level_manager, next_sstable_id,
          compactor_next_id, pc, op, channel, worker, threads, last_op, logical, restarts>>

NoSSTable == SSTable_create_with_level(FlushPath(0), EmptyMap, 0)
NoBefore == [k \in Keys |-> OkNone]
NoOp == [name |-> "none", sstable |-> NoSSTable, first_id |-> 0, before |-> NoBefore]

Get(key) == LSMTree_get(memtable, level_manager, files, key)
GetAll == [k \in Keys |-> Get(k)]

Returned(name, ok) == [name |-> name, ok |-> ok]

\* the worker thread with_config leaves behind: spawned and in its loop when
\* background_compaction is set
spawned(cfg) == IF cfg.background_compaction THEN "running" ELSE "none"

\* LSMTree::with_config(cfg) on an empty data directory
InitWith(cfg) ==
    /\ config = cfg
    /\ files = NoFiles
    /\ wal_file = <<>>
    /\ wal_writer = WAL_new
    /\ memtable = MemTable_new
    /\ level_manager = LevelManager_new
    /\ next_sstable_id = 0
    /\ compactor_next_id = 0
    /\ pc = "idle"
    /\ op = NoOp
    /\ channel = 0
    /\ worker = spawned(cfg)
    /\ threads = NoThreads
    /\ last_op = Returned("open", TRUE)
    /\ logical = EmptyMap
    /\ restarts = 0

\* LSMConfig::default() but for memtable_size_limit
Init == InitWith([enable_wal |-> TRUE, background_compaction |-> TRUE])

\* ----------------------------------------------------------------------
\* The writer thread: insert, delete, flush
\* ----------------------------------------------------------------------
\* the call returns Ok(()) to the caller
ReturnOk(name) ==
    /\ pc' = "idle"
    /\ op' = NoOp
    /\ last_op' = Returned(name, TRUE)

\* the call returns Err to the caller
ReturnErr(name) ==
    /\ pc' = "idle"
    /\ op' = NoOp
    /\ last_op' = Returned(name, FALSE)

\* what a flush or a compaction finds when it starts
EntryState(mt, lm, fs) ==
    [memtable |-> mt, level_manager |-> lm,
     get |-> [k \in Keys |-> LSMTree_get(mt, lm, fs, k)]]

\* entry of flush_memtable with the MemTable mt: nothing to do when it is empty
EnterFlushMemtable(name, mt, before) ==
    IF MemTable_is_empty(mt)
    THEN ReturnOk(name)
    ELSE /\ next_sstable_id < MaxSeq
         /\ pc' = flush_memtable_order[1]
         /\ op' = [name |-> name, sstable |-> NoSSTable,
                   first_id |-> next_sstable_id, before |-> before,
                   entry |-> EntryState(mt, level_manager, files)]
         /\ UNCHANGED last_op

\* the tail shared by insert and delete: flush when the MemTable is full
AfterMutation(name, mt) ==
    IF needs_flush(MemTable_len(mt))
    THEN EnterFlushMemtable(name, mt, NoBefore)
    ELSE ReturnOk(name)

\* an insert that appends to the WAL whatever the configuration says
Insert_logging_always(key, value) ==
    /\ pc = "idle"
    /\ Len(wal_file) < MaxWal
    /\ wal_file' = WAL_append(wal_file, wal_writer, WALInsert(key, value))
    /\ wal_writer' = WAL_new
    /\ memtable' = MemTable_insert(memtable, key, value)
    /\ logical' = MapPut(logical, key, Data(value))
    /\ AfterMutation("insert", memtable')
    /\ UNCHANGED <<config, worker, threads, files, level_manager, next_sstable_id,
                   compactor_next_id, channel, restarts>>

\* LSMTree::insert up to the call of flush_memtable
Insert(key, value) ==
    /\ pc = "idle"
    /\ Len(wal_file) < MaxWal
    /\ wal_file' = IF config.enable_wal
                   THEN WAL_append(wal_file, wal_writer, WALInsert(key, value))
                   ELSE wal_file
    /\ wal_writer' = WAL_new
    /\ memtable' = MemTable_insert(memtable, key, value)
    /\ logical' = MapPut(logical, key, Data(value))
    /\ AfterMutation("insert", memtable')
    /\ UNCHANGED <<config, worker, threads, files, level_manager, next_sstable_id,
                   compactor_next_id, channel, restarts>>

\* LSMTree::delete up to the call of flush_memtable
Delete(key) ==
    /\ pc = "idle"
    /\ Len(wal_file) < MaxWal
    /\ wal_file' = IF config.enable_wal
                   THEN WAL_append(wal_file, wal_writer, WALDelete(key))
                   ELSE wal_file
    /\ wal_writer' = WAL_new
    /\ memtable' = MemTable_insert_tombstone(memtable, key)
    /\ logical' = MapPut(logical, key, Tombstone)
    /\ AfterMutation("delete", memtable')
    /\ UNCHANGED <<config, worker, threads, files, level_manager, next_sstable_id,
                   compactor_next_id, channel, restarts>>

\* WAL::append returns Err out of self.writer.flush(): the BufWriter wrote
\* nothing of the frame (cut = "none"), a part of its length prefix or the
\* prefix and a part of its payload, and keeps the rest; insert and delete
\* return that Err before they reach the MemTable. A failing append is
\* followed here only after the buffer has been written out.
AppendFails(name, entry, cut) ==
    /\ pc = "idle"
    /\ config.enable_wal
    /\ Len(wal_file) < MaxWal
    /\ wal_writer = WAL_new
    /\ wal_file' = IF cut = "none" THEN wal_file
                   ELSE Append(wal_file, PartialFrame(cut, entry))
    /\ wal_writer' = WALWriter(<<entry>>, cut # "none")
    /\ ReturnErr(name)
    /\ UNCHANGED <<config, worker, threads, files, memtable, level_manager, next_sstable_id,
                   compactor_next_id, channel, logical, restarts>>

InsertWalFails(key, value, cut) == AppendFails("insert", WALInsert(key, value), cut)
DeleteWalFails(key, cut) == AppendFails("delete", WALDelete(key), cut)

\* the process is killed while WAL::append writes the frame of an insert or
\* of a delete: a part of the frame is in the file
AppendInterrupted(entry, cut) ==
    /\ pc = "idle"
    /\ config.enable_wal
    /\ Len(wal_file) < MaxWal
    /\ wal_writer = WAL_new
    /\ wal_file' = Append(wal_file, PartialFrame(cut, entry))
    /\ pc' = "down"
    /\ UNCHANGED <<config, worker, threads, files, wal_writer, memtable, level_manager, next_sstable_id,
                   compactor_next_id, op, channel, last_op, logical, restarts>>

\* LSMTree::flush up to the call of flush_memtable
Flush ==
    /\ pc = "idle"
    /\ IF MemTable_is_empty(memtable)
       THEN ReturnOk("flush")
       ELSE EnterFlushMemtable("flush", memtable, GetAll)
    /\ UNCHANGED <<config, worker, threads, files, wal_file, wal_writer, memtable, level_manager,
                   next_sstable_id, compactor_next_id, channel, logical, restarts>>

\* after a statement of flush_memtable: go to the next one, or signal the
\* worker and return Ok(()) after the last one
Advance(step, sstable) ==
    IF IsLastStep(step)
    THEN /\ ReturnOk(op.name)
         /\ channel' = IF config.background_compaction THEN channel + 1 ELSE channel
    ELSE /\ pc' = StepAfter(step)
         /\ op' = [op EXCEPT !.sstable = sstable]
         /\ UNCHANGED <<last_op, channel>>

\* fetch_add on next_sstable_id and SSTable::create_with_level
FlushCreate ==
    /\ pc = "create"
    /\ next_sstable_id' = next_sstable_id + 1
    /\ files' = SSTable_write(files, FlushPath(next_sstable_id), memtable)
    /\ Advance("create", SSTable_create_with_level(FlushPath(next_sstable_id), memtable, 0))
    /\ UNCHANGED <<config, worker, threads, wal_file, wal_writer, memtable, level_manager, compactor_next_id, logical, restarts>>

\* SSTable::create_with_level returns Err: File::create failed (no file), or
\* the write of the records failed (a file that does not deserialize)
FlushCreateFails ==
    /\ pc = "create"
    /\ next_sstable_id' = next_sstable_id + 1
    /\ \/ files' = files
       \/ files' = FilePut(files, FlushPath(next_sstable_id), PartialFile)
    /\ ReturnErr(op.name)
    /\ UNCHANGED <<config, worker, threads, wal_file, wal_writer, memtable, level_manager, compactor_next_id,
                   channel, logical, restarts>>

\* SSTable::create_with_level returns Ok although the write of the records
\* failed: the BufWriter is never flushed, it writes its buffer when it is
\* dropped, and the drop ignores the error
FlushCreateUnwritten ==
    /\ pc = "create"
    /\ next_sstable_id' = next_sstable_id + 1
    /\ files' = FilePut(files, FlushPath(next_sstable_id), PartialFile)
    /\ Advance("create", SSTable_create_with_level(FlushPath(next_sstable_id), memtable, 0))
    /\ UNCHANGED <<config, worker, threads, wal_file, wal_writer, memtable, level_manager, compactor_next_id, logical, restarts>>

\* level_manager.add_sstable(sstable, 0)
FlushAdd ==
    /\ pc = "add"
    /\ level_manager' = add_sstable(level_manager, op.sstable, 0)
    /\ Advance("add", op.sstable)
    /\ UNCHANGED <<config, worker, threads, files, wal_file, wal_writer, memtable, next_sstable_id,
                   compactor_next_id, logical, restarts>>

\* *memtable = MemTable::new()
FlushClear ==
    /\ pc = "clear"
    /\ memtable' = MemTable_new
    /\ Advance("clear", op.sstable)
    /\ UNCHANGED <<config, worker, threads, files, wal_file, wal_writer, level_manager, next_sstable_id,
                   compactor_next_id, logical, restarts>>

\* wal.truncate(), when the WAL is enabled
FlushTruncate ==
    /\ pc = "truncate"
    /\ wal_file' = IF config.enable_wal THEN WAL_truncate(wal_file) ELSE wal_file
    /\ wal_writer' = WAL_new
    /\ Advance("truncate", op.sstable)
    /\ UNCHANGED <<config, worker, threads, files, memtable, level_manager, next_sstable_id,
                   compactor_next_id, logical, restarts>>

\* ----------------------------------------------------------------------
\* LSMTree::get statement by statement, next to the worker
\* ----------------------------------------------------------------------
\* a get that lets go of the level manager once it has taken its list
level_manager_released_after_listing == FALSE

\* the guard of self.level_manager.read() taken by get lives until get
\* returns: it is held while get walks its list of SSTables
level_manager_read_locked == pc = "scan"

\* get returns r
ReturnGet(r) ==
    /\ pc' = "idle"
    /\ op' = NoOp
    /\ last_op' = [name |-> "get", ok |-> ~IsErr(r), value |-> r]

\* LSMTree::get up to the loop: the MemTable under its read lock, then the
\* read lock of the level manager and get_all_sstables()
GetEnter(key) ==
    /\ pc = "idle"
    /\ IF key \in DOMAIN memtable
       THEN ReturnGet(IF memtable[key][1] = "Data" THEN OkSome(memtable[key][2]) ELSE OkNone)
       ELSE /\ pc' = "scan"
            /\ op' = [name |-> "get", sstable |-> NoSSTable, first_id |-> 0,
                      before |-> NoBefore, key |-> key,
                      all_sstables |-> get_all_sstables(level_manager)]
            /\ UNCHANGED last_op
    /\ UNCHANGED <<config, worker, threads, files, wal_file, wal_writer, memtable, level_manager,
                   next_sstable_id, compactor_next_id, channel, logical, restarts>>

\* one iteration of the loop of get: might_contain, then sstable.get, which
\* opens and reads the file; Ok(None) after the last SSTable
GetScan ==
    /\ pc = "scan"
    /\ IF op.all_sstables = <<>>
       THEN ReturnGet(OkNone)
       ELSE LET sstable == Head(op.all_sstables)
                r == SSTable_get(files, sstable, op.key)
            IN  IF SSTable_might_contain(sstable, op.key) /\ r.tag # "None"
                THEN ReturnGet(r)
                ELSE /\ op' = [op EXCEPT !.all_sstables = Tail(op.all_sstables)]
                     /\ UNCHANGED <<pc, last_op>>
    /\ UNCHANGED <<config, worker, threads, files, wal_file, wal_writer, memtable, level_manager,
                   next_sstable_id, compactor_next_id, channel, logical, restarts>>

\* ----------------------------------------------------------------------
\* Compaction: by hand under both write locks, and by the background worker
\* ----------------------------------------------------------------------
\* compactor.compact_level(&mut level_manager, level) called by the owner of
\* the engine
ManualCompact(level) ==
    /\ pc = "idle"
    /\ \E r \in {compact_level(level_manager, files, compactor_next_id, level)} :
           /\ r.next_id <= MaxSeq
           /\ level_manager' = r.lm
           /\ files' = r.files
           /\ compactor_next_id' = r.next_id
           /\ last_op' = Returned("compact", r.ok)
    /\ UNCHANGED <<config, worker, threads, wal_file, wal_writer, memtable, next_sstable_id, pc, op, channel, logical, restarts>>

\* the levels the worker's loop finds in need of compaction
LevelsToCompact(lm) == {l \in 0..lm.max_level : should_compact(lm, l)}

\* a loop that goes on to the deepest level in need of compaction
DeepestLevelToCompact(lm) == SetMax(LevelsToCompact(lm))

\* for level in 0..=max_level { if should_compact(level) { ...; break; } }
FirstLevelToCompact(lm) == SetMin(LevelsToCompact(lm))

\* one wake-up of the worker: a CheckCompaction message or the timeout of
\* recv_timeout, then the first level that needs compaction is compacted
BackgroundCheck ==
    /\ worker = "running"
    /\ ~level_manager_read_locked
    /\ channel' = IF channel > 0 THEN channel - 1 ELSE channel
    /\ IF LevelsToCompact(level_manager) = {}
       THEN UNCHANGED <<level_manager, files, compactor_next_id>>
       ELSE \E r \in {compact_level(level_manager, files, compactor_next_id,
                                     FirstLevelToCompact(level_manager))} :
                /\ r.next_id <= MaxSeq
                /\ level_manager' = r.lm
                /\ files' = r.files
                /\ compactor_next_id' = r.next_id
    /\ UNCHANGED <<config, worker, threads, wal_file, wal_writer, memtable, next_sstable_id, pc, op, last_op, logical, restarts>>

\* ----------------------------------------------------------------------
\* The process is killed at any point and LSMTree::with_config runs again
\* on the same directory
\* ----------------------------------------------------------------------
Restart ==
    LET existing_sstables == load_existing_sstables(files)
    IN  /\ wal_writer = WAL_new
        /\ restarts < MaxRestarts
        /\ restarts' = restarts + 1
        /\ level_manager' = register_existing(LevelManager_new, existing_sstables)
        /\ next_sstable_id' = determine_next_id(existing_sstables)
        /\ compactor_next_id' = determine_next_id(existing_sstables)
        /\ wal_writer' = WAL_new
        /\ op' = NoOp
        /\ channel' = 0
        /\ IF config.enable_wal /\ ~WAL_read_all_ok(wal_file)
           THEN \* replay_wal()? returns the Err of read_all: no engine
                /\ memtable' = MemTable_new
                /\ pc' = "down"
                /\ last_op' = Returned("open", FALSE)
           ELSE /\ memtable' = IF config.enable_wal
                               THEN replay_entries(MemTable_new, WAL_read_all(wal_file))
                               ELSE MemTable_new
                /\ pc' = "idle"
                /\ last_op' = Returned("open", TRUE)
        /\ worker' = IF pc' = "idle" THEN spawned(config) ELSE "none"
        /\ UNCHANGED <<config, threads, files, wal_file, logical>>

\* The engine is dropped between two calls, or the process is killed, while
\* the BufWriter of the WAL holds the frame of a failed append: the drop
\* writes the buffer out (written), the kill loses it
RestartBuffered(written) ==
    /\ wal_writer # WAL_new
    /\ written => pc = "idle"
    /\ restarts < MaxRestarts
    /\ restarts' = restarts + 1
    /\ wal_file' = IF written THEN WAL_flushed(wal_file, wal_writer) ELSE wal_file
    /\ wal_writer' = WAL_new
    /\ op' = NoOp
    /\ channel' = 0
    /\ LET existing_sstables == load_existing_sstables(files)
       IN  /\ level_manager' = register_existing(LevelManager_new, existing_sstables)
           /\ next_sstable_id' = determine_next_id(existing_sstables)
           /\ compactor_next_id' = determine_next_id(existing_sstables)
    /\ IF ~WAL_read_all_ok(wal_file')
       THEN /\ memtable' = MemTable_new
            /\ pc' = "down"
            /\ last_op' = Returned("open", FALSE)
       ELSE /\ memtable' = replay_entries(MemTable_new, WAL_read_all(wal_file'))
            /\ pc' = "idle"
            /\ last_op' = Returned("open", TRUE)
    /\ worker' = IF pc' = "idle" THEN spawned(config) ELSE "none"
    /\ UNCHANGED <<config, threads, files, logical>>

\* The owner lets go of the engine between two calls. LSMTree has no close
\* and no Drop: its fields are dropped one by one. The MemTable is freed, the
\* Sender of the channel is dropped without a ShutDown message, the
\* JoinHandle is dropped without a join, the BufWriter of the WAL writes out
\* what it holds. The worker keeps its own Arcs of the level manager and of
\* the compactor; recv_timeout gives it the messages still in the channel
\* and then Err(Disconnected), which its loop treats like a timeout.
DropEngine ==
    /\ pc = "idle"
    /\ pc' = "closed"
    /\ memtable' = MemTable_new
    /\ wal_file' = WAL_flushed(wal_file, wal_writer)
    /\ wal_writer' = WAL_new
    /\ op' = NoOp
    /\ last_op' = Returned("close", TRUE)
    /\ UNCHANGED <<config, worker, threads, files, level_manager, next_sstable_id, compactor_next_id,
                   channel, logical, restarts>>

\* the calls of the writer thread
Writer ==
    \/ \E key \in Keys, value \in Payloads : Insert(key, value)
    \/ \E key \in Keys : Delete(key)
    \/ Flush
    \/ FlushCreate
    \/ FlushAdd
    \/ FlushClear
    \/ FlushTruncate

\* The engine at work: the writer thread, compactions by hand and the
\* background worker
Next ==
    \/ Writer
    \/ \E level \in 0..1 : ManualCompact(level)
    \/ BackgroundCheck

Spec == Init /\ [][Next]_vars

\* LSMConfig of the unit tests of the WAL: background_compaction: false
InitNoBackground == InitWith([enable_wal |-> TRUE, background_compaction |-> FALSE])

\* The writer thread with failing SSTable creation and with the process
\* killed at any point and started again
NextCrash ==
    \/ Writer
    \/ FlushCreateFails
    \/ FlushCreateUnwritten
    \/ Restart

SpecCrash == InitNoBackground /\ [][NextCrash]_vars

\* The writer thread, compactions by hand, and the process stopped at any
\* point and started again
NextReopen ==
    \/ Writer
    \/ \E level \in 0..1 : ManualCompact(level)
    \/ Restart

SpecReopen == InitNoBackground /\ [][NextReopen]_vars

\* ----------------------------------------------------------------------
\* Calls with the empty string as key
\* ----------------------------------------------------------------------
\* LSMTree::insert(String::new(), value)
InsertEmptyKey(value) == Insert(EmptyKey, value)

\* LSMTree::delete("")
DeleteEmptyKey == Delete(EmptyKey)

\* The writer thread, its callers passing the empty key as well
NextEmptyKey ==
    \/ Writer
    \/ \E value \in Payloads : InsertEmptyKey(value)
    \/ DeleteEmptyKey

SpecEmptyKey == InitNoBackground /\ [][NextEmptyKey]_vars

\* LSMConfig of test_wal_disabled: enable_wal: false
InitNoWal == InitWith([enable_wal |-> FALSE, background_compaction |-> FALSE])

\* The writer thread without a WAL, the engine dropped or killed at any point
\* and opened again
NextNoWal ==
    \/ Writer
    \/ Restart

SpecNoWal == InitNoWal /\ [][NextNoWal]_vars

\* the records an earlier compaction left at level 2: Data for some keys
DeepData == {data \in UNION {[ks -> {Data(v) : v \in Payloads}] : ks \in SUBSET Keys} :
                DOMAIN data # {}}

\* An engine whose earlier compactions have moved data down to level 2, seen
\* through the keys of Keys: one SSTable at level 2, nothing above it. The
\* sequence numbers of the SSTables written from here on are counted from
\* this state.
InitDeep ==
    \E data \in DeepData :
        /\ config = [enable_wal |-> TRUE, background_compaction |-> FALSE]
        /\ files = SSTable_write(NoFiles, CompactPath(2, 0), data)
        /\ wal_file = <<>>
        /\ wal_writer = WAL_new
        /\ memtable = MemTable_new
        /\ level_manager = add_sstable(LevelManager_new,
                               SSTable_create_with_level(CompactPath(2, 0), data, 2), 2)
        /\ next_sstable_id = 0
        /\ compactor_next_id = 1
        /\ pc = "idle"
        /\ op = NoOp
        /\ channel = 0
        /\ worker = "none"
        /\ threads = NoThreads
        /\ last_op = Returned("compact", TRUE)
        /\ logical = data
        /\ restarts = 0

\* The writer thread and compactions by hand above data at level 2
NextDeep ==
    \/ Writer
    \/ \E level \in 0..1 : ManualCompact(level)

SpecDeep == InitDeep /\ [][NextDeep]_vars

\* The writer thread and the background worker, until the owner lets go of
\* the engine, and the worker after that
NextClose ==
    \/ Writer
    \/ BackgroundCheck
    \/ DropEngine

SpecClose == Init /\ [][NextClose]_vars

\* The same with a worker that is scheduled again and again: recv_timeout on
\* a channel without Sender returns at once
SpecDropped == Init /\ [][NextClose]_vars /\ WF_vars(BackgroundCheck)

\* The writer thread and a worker that is scheduled again and again: its
\* recv_timeout returns after background_compaction_interval at the latest
NextWorker ==
    \/ Writer
    \/ BackgroundCheck

SpecWorker == Init /\ [][NextWorker]_vars /\ WF_vars(BackgroundCheck)

\* what the MemTable held at each of four flushes
FlushedBatches ==
    {MapPut(MapPut(EmptyMap, 1, Data(1)), MaxKey, Data(1)),
     MapPut(EmptyMap, 1, Data(MaxVal)),
     MapPut(EmptyMap, MaxKey, Tombstone),
     MapPut(MapPut(EmptyMap, 1, Tombstone), MaxKey, Data(MaxVal))}

\* the state flush_memtable leaves after it has flushed the batches in order
RECURSIVE flushed_files(_, _)
flushed_files(batches, n) ==
    IF n = 0 THEN NoFiles
    ELSE SSTable_write(flushed_files(batches, n - 1), FlushPath(n - 1), batches[n])

RECURSIVE flushed_levels(_, _)
flushed_levels(batches, n) ==
    IF n = 0 THEN LevelManager_new
    ELSE add_sstable(flushed_levels(batches, n - 1),
                     SSTable_create_with_level(FlushPath(n - 1), batches[n], 0), 0)

RECURSIVE flushed_logical(_, _)
flushed_logical(batches, n) ==
    IF n = 0 THEN EmptyMap
    ELSE [k \in DOMAIN flushed_logical(batches, n - 1) \cup DOMAIN batches[n] |->
             IF k \in DOMAIN batches[n] THEN batches[n][k]
             ELSE flushed_logical(batches, n - 1)[k]]

\* LSMConfig::default() but for memtable_size_limit, right after the flush
\* that brings level 0 to level_0_file_limit SSTables: the CheckCompaction
\* message of that flush is in the channel, the worker has not run yet
InitLoaded ==
    \E batches \in [1..level_0_file_limit -> FlushedBatches] :
        /\ config = [enable_wal |-> TRUE, background_compaction |-> TRUE]
        /\ files = flushed_files(batches, level_0_file_limit)
        /\ wal_file = <<>>
        /\ wal_writer = WAL_new
        /\ memtable = MemTable_new
        /\ level_manager = flushed_levels(batches, level_0_file_limit)
        /\ next_sstable_id = level_0_file_limit
        /\ compactor_next_id = 0
        /\ pc = "idle"
        /\ op = NoOp
        /\ channel = 1
        /\ worker = "running"
        /\ threads = NoThreads
        /\ last_op = Returned("flush", TRUE)
        /\ logical = flushed_logical(batches, level_0_file_limit)
        /\ restarts = 0

\* Mutations that stay in the MemTable, gets statement by statement and the
\* background worker on a level 0 that is due for compaction
NextLoaded ==
    \/ \E key \in Keys, value \in Payloads : Insert(key, value)
    \/ \E key \in Keys : Delete(key)
    \/ \E key \in Keys : GetEnter(key)
    \/ GetScan
    \/ BackgroundCheck

SpecLoaded == InitLoaded /\ [][NextLoaded]_vars

\* how many flushes an engine without background compaction has behind it
MaxFlushes == level_0_file_limit + 1

\* LSMConfig with background_compaction: false after some flushes and no
\* compaction: every flush has left its SSTable at level 0
InitFlushed ==
    \E n \in 0..MaxFlushes :
        \E batches \in [1..n -> FlushedBatches] :
            /\ config = [enable_wal |-> TRUE, background_compaction |-> FALSE]
            /\ files = flushed_files(batches, n)
            /\ wal_file = <<>>
            /\ wal_writer = WAL_new
            /\ memtable = MemTable_new
            /\ level_manager = flushed_levels(batches, n)
            /\ next_sstable_id = n
            /\ compactor_next_id = 0
            /\ pc = "idle"
            /\ op = NoOp
            /\ channel = 0
            /\ worker = "none"
            /\ threads = NoThreads
            /\ last_op = IF n = 0 THEN Returned("open", TRUE) ELSE Returned("flush", TRUE)
            /\ logical = flushed_logical(batches, n)
            /\ restarts = 0

\* The writer thread and compactions of level 0 by hand
NextFlushed ==
    \/ Writer
    \/ ManualCompact(0)

SpecFlushed == InitFlushed /\ [][NextFlushed]_vars

\* ----------------------------------------------------------------------
\* LevelManager on its own: add_sstable and remove_sstables in any order.
\* Of an SSTable the level manager reads its path, its level, its key range
\* and its len(); the records behind a len() of millions are not followed
\* ----------------------------------------------------------------------
MaxLevel == 2
MaxPerLevel == 2

\* the len() an SSTable of the level can have: a small one, or one record
\* short of the size at which the level is full
LevelCounts(level) == IF level = 0 THEN {1} ELSE {1, get_max_level_size(level) - 1}

\* the handle SSTable::create_with_level returns for such a file
LevelSSTable(level, seq, min_key, max_key, count) ==
    [file_path |-> IF level = 0 THEN FlushPath(seq) ELSE CompactPath(level, seq),
     record_count |-> count,
     bloom_filter |-> NoSSTable.bloom_filter,
     level |-> level,
     min_key |-> min_key,
     max_key |-> max_key]

\* the sequence numbers of the files of a level: one file at level 0, where
\* neither order nor size matters, MaxPerLevel files at a deeper level
LevelSeqs(level) == IF level = 0 THEN {0} ELSE 0..(MaxPerLevel - 1)

LevelSSTables ==
    UNION {{LevelSSTable(level, seq, min_key, max_key, count) :
               seq \in LevelSeqs(level), min_key \in Keys, max_key \in Keys,
               count \in LevelCounts(level)} : level \in 0..MaxLevel}

LevelUnchanged ==
    UNCHANGED <<config, worker, threads, files, wal_file, wal_writer, memtable,
                next_sstable_id, compactor_next_id, pc, op, channel, logical, restarts>>

\* level_manager.add_sstable(sstable, level) with the level of the SSTable,
\* as flush_memtable, with_config and the compactor call it
LevelAdd(sstable) ==
    /\ sstable.min_key <= sstable.max_key
    /\ \A i \in 1..Len(get_all_sstables(level_manager)) :
           get_all_sstables(level_manager)[i].file_path # sstable.file_path
    /\ Len(get_sstables_at_level(level_manager, sstable.level)) < MaxPerLevel
    /\ level_manager' = add_sstable(level_manager, sstable, sstable.level)
    /\ last_op' = Returned("add_sstable", TRUE)
    /\ LevelUnchanged

\* level_manager.remove_sstables(&old_sstables) with registered SSTables, in
\* the order of the level manager
LevelRemove(old_sstables) ==
    /\ old_sstables # {}
    /\ Cardinality(old_sstables) <= MaxPerLevel
    /\ LET Old(s) == s \in old_sstables
       IN  level_manager' =
               remove_sstables(level_manager, SelectSeq(get_all_sstables(level_manager), Old))
    /\ last_op' = Returned("remove_sstables", TRUE)
    /\ LevelUnchanged

NextLevels ==
    \/ \E sstable \in LevelSSTables : LevelAdd(sstable)
    \/ \E old_sstables \in SUBSET {get_all_sstables(level_manager)[i] :
                                      i \in 1..Len(get_all_sstables(level_manager))} :
           LevelRemove(old_sstables)

SpecLevels == InitNoBackground /\ [][NextLevels]_vars

\* what each flush of an engine that is written at key 1 only has put in its
\* SSTable
Level0Batches ==
    {MapPut(EmptyMap, 1, Data(1)),
     MapPut(EmptyMap, 1, Data(MaxVal)),
     MapPut(EmptyMap, 1, Tombstone)}

\* the SSTable earlier compactions have left at level 1, seen through the
\* keys of Keys: of its records the one of key MaxKey, its len() the whole
\* max_size of level 1
FullLevel1(value) ==
    [SSTable_create_with_level(CompactPath(1, 0), MapPut(EmptyMap, MaxKey, Data(value)), 1)
        EXCEPT !.record_count = Level1MaxSize]

\* An engine with background compaction whose level 1 has reached its
\* max_size, with an empty level 0 or right after the flush that brings
\* level 0 to level_0_file_limit SSTables: the worker has not run yet
InitDue ==
    \E n \in {0, level_0_file_limit}, value \in Payloads :
        \E batches \in [1..n -> Level0Batches] :
            /\ config = [enable_wal |-> TRUE, background_compaction |-> TRUE]
            /\ files = SSTable_write(flushed_files(batches, n), CompactPath(1, 0),
                                     MapPut(EmptyMap, MaxKey, Data(value)))
            /\ wal_file = <<>>
            /\ wal_writer = WAL_new
            /\ memtable = MemTable_new
            /\ level_manager = add_sstable(flushed_levels(batches, n), FullLevel1(value), 1)
            /\ next_sstable_id = n
            /\ compactor_next_id = 1
            /\ pc = "idle"
            /\ op = NoOp
            /\ channel = 1
            /\ worker = "running"
            /\ threads = NoThreads
            /\ last_op = Returned("flush", TRUE)
            /\ logical = MapPut(flushed_logical(batches, n), MaxKey, Data(value))
            /\ restarts = 0

\* Mutations that stay in the MemTable and the background worker on levels
\* that are due for compaction
NextDue ==
    \/ \E key \in Keys, value \in Payloads : Insert(key, value)
    \/ \E key \in Keys : Delete(key)
    \/ BackgroundCheck

SpecDue == InitDue /\ [][NextDue]_vars

\* how many flushes lie behind the engine when the worker is followed
EarlierFlushes == level_0_file_limit - 1

\* the state flush_memtable leaves after flushes that got the sequence
\* numbers from first_id on
RECURSIVE files_flushed_from(_, _, _)
files_flushed_from(batches, n, first_id) ==
    IF n = 0 THEN NoFiles
    ELSE SSTable_write(files_flushed_from(batches, n - 1, first_id),
                       FlushPath(first_id + n - 1), batches[n])

RECURSIVE levels_flushed_from(_, _, _)
levels_flushed_from(batches, n, first_id) ==
    IF n = 0 THEN LevelManager_new
    ELSE add_sstable(levels_flushed_from(batches, n - 1, first_id),
                     SSTable_create_with_level(FlushPath(first_id + n - 1), batches[n], 0), 0)

\* An engine with background compaction one flush before level 0 reaches
\* level_0_file_limit SSTables. The sequence numbers are counted from the
\* value of next_sstable_id in this state: the files of the earlier flushes
\* carry the numbers below it
InitBusy ==
    \E batches \in [1..EarlierFlushes ->
                        {MapPut(MapPut(EmptyMap, 1, Data(1)), MaxKey, Data(1)),
                         MapPut(MapPut(EmptyMap, 1, Tombstone), MaxKey, Data(MaxVal))}] :
        /\ config = [enable_wal |-> TRUE, background_compaction |-> TRUE]
        /\ files = files_flushed_from(batches, EarlierFlushes, 0 - EarlierFlushes)
        /\ wal_file = <<>>
        /\ wal_writer = WAL_new
        /\ memtable = MemTable_new
        /\ level_manager = levels_flushed_from(batches, EarlierFlushes, 0 - EarlierFlushes)
        /\ next_sstable_id = 0
        /\ compactor_next_id = 0
        /\ pc = "idle"
        /\ op = NoOp
        /\ channel = 0
        /\ worker = "running"
        /\ threads = NoThreads
        /\ last_op = Returned("flush", TRUE)
        /\ logical = flushed_logical(batches, EarlierFlushes)
        /\ restarts = 0

\* The writer thread, statement by statement, and the background worker
NextBusy ==
    \/ Writer
    \/ BackgroundCheck

SpecBusy == InitBusy /\ [][NextBusy]_vars

\* ----------------------------------------------------------------------
\* The calls of several threads seen as their lock steps. Which branch a
\* call takes (a hit in the MemTable, a MemTable that reached the limit) is
\* chosen freely, so every sequence of locks the code can run is there
\* ----------------------------------------------------------------------
Holders(lock, mode) == {t \in Threads : <<lock, mode>> \in threads[t].held}
Waits(t) == threads[t].todo # <<>> /\ Head(threads[t].todo).do = "acquire"
\* the threads whose guard or whose earlier wait keeps t from its lock: a
\* writer waits for every guard, a reader for a write guard and, in
\* parking_lot, for a writer that waits already
Blockers(t) ==
    IF ~Waits(t) THEN {}
    ELSE LET want == Head(threads[t].todo)
             others == Threads \ {t}
         IN  (Holders(want.lock, "write") \cap others)
             \cup (IF want.mode = "write"
                   THEN Holders(want.lock, "read") \cap others
                   ELSE {u \in others : /\ Waits(u)
                                        /\ Head(threads[u].todo) = acquire(want.lock, "write")
                                        /\ Holders(want.lock, "read") \ {u} # {}})
Conflicts(t) ==
    LET want == Head(threads[t].todo)
    IN  (Holders(want.lock, "write") \cup
         (IF want.mode = "write" THEN Holders(want.lock, "read") ELSE {})) \ {t}

LocksUnchanged ==
    UNCHANGED <<config, worker, files, wal_file, wal_writer, memtable, level_manager,
                next_sstable_id, compactor_next_id, pc, op, last_op, logical, restarts>>

Call(t, name, script) ==
    /\ pc = "idle"
    /\ threads[t].todo = <<>>
    /\ threads' = [threads EXCEPT ![t] = [call |-> name, todo |-> script, held |-> {}]]
    /\ UNCHANGED channel
    /\ LocksUnchanged

CallInsert == \E script \in insert_locks(config.enable_wal) : Call("writer", "insert", script)
CallDelete == \E script \in delete_locks(config.enable_wal) : Call("writer", "delete", script)
CallFlush == \E script \in flush_locks(config.enable_wal) : Call("writer", "flush", script)
CallGet(t) == \E script \in get_locks : Call(t, "get", script)
CallStats(t) == \E script \in stats_locks : Call(t, "stats", script)

\* rx.recv_timeout returns with a message or by the timeout
WorkerWakes ==
    /\ worker = "running"
    /\ threads["worker"].todo = <<>>
    /\ threads' = [threads EXCEPT !["worker"] =
                       [call |-> "check", todo |-> worker_locks, held |-> {}]]
    /\ channel' = IF channel > 0 THEN channel - 1 ELSE channel
    /\ LocksUnchanged

\* the next lock() or drop of a guard of thread t
LockStep(t) ==
    /\ threads[t].todo # <<>>
    /\ LET step == Head(threads[t].todo)
       IN  /\ step.do = "acquire" => Conflicts(t) = {}
           /\ threads' = [threads EXCEPT
                  ![t].todo = Tail(@),
                  ![t].held = IF step.do = "acquire"
                              THEN @ \cup {<<step.lock, step.mode>>}
                              ELSE @ \ {<<step.lock, step.mode>>}]
    /\ UNCHANGED channel
    /\ LocksUnchanged

NextLocks ==
    \/ CallInsert
    \/ CallDelete
    \/ CallFlush
    \/ \E t \in {"writer", "reader"} : CallGet(t)
    \/ \E t \in {"writer", "reader"} : CallStats(t)
    \/ WorkerWakes
    \/ \E t \in Threads : LockStep(t)

SpecLocks == Init /\ [][NextLocks]_vars

\* ----------------------------------------------------------------------
\* compact_level file by file: what is on disk after each write of an output
\* and each removal of an input
\* ----------------------------------------------------------------------
\* the SSTables compact_level(level) hands to merge_sstables
MergeInputs(lm, level) ==
    LET source == IF level = 0 THEN get_sstables_at_level(lm, 0)
                  ELSE get_compaction_candidates(lm, level)
    IN  IF source = <<>> THEN <<>>
        ELSE source \o get_overlapping_sstables(lm, level + 1,
                           MinKeyOf(source), MaxKeyOf(source))

\* what merge_sstables is about to write for these inputs
MergeChunks(fs, sstables) ==
    LET all_records == retain_live(load_all_records(fs, EmptyMap, sstables))
    IN  split_records(all_records, KeysInOrder(DOMAIN all_records), EmptyMap, 0)

\* merge_sstables returns before its first output: nothing to merge, an input
\* that cannot be loaded, or only tombstones
MergeReturnsEarly(fs, sstables) ==
    \/ sstables = <<>>
    \/ \E i \in 1..Len(sstables) : ~load_records_ok(fs, sstables[i].file_path)
    \/ MergeChunks(fs, sstables) = <<>>

\* compact_level up to the first output of merge_sstables
CompactBegin(level) ==
    LET sstables == MergeInputs(level_manager, level)
    IN  /\ pc = "idle"
        /\ IF MergeReturnsEarly(files, sstables)
           THEN \E r \in {compact_level(level_manager, files, compactor_next_id, level)} :
                    /\ level_manager' = r.lm
                    /\ last_op' = Returned("compact", r.ok)
                    /\ UNCHANGED <<pc, op>>
           ELSE /\ compactor_next_id + Len(MergeChunks(files, sstables)) <= MaxSeq
                /\ pc' = "write_output"
                /\ op' = [name |-> "compact", sstable |-> NoSSTable,
                          first_id |-> compactor_next_id, before |-> GetAll,
                          inputs |-> sstables, to_delete |-> sstables,
                          chunks |-> MergeChunks(files, sstables), new |-> <<>>,
                          target_level |-> level + 1,
                          entry |-> EntryState(memtable, level_manager, files)]
                /\ UNCHANGED <<level_manager, last_op>>
        /\ UNCHANGED <<config, worker, threads, files, wal_file, wal_writer, memtable,
                       next_sstable_id, compactor_next_id, channel, logical, restarts>>

\* next_sstable_id() and SSTable::create_with_level for one output
CompactWrite ==
    LET path == CompactPath(op.target_level, compactor_next_id)
    IN  /\ pc = "write_output"
        /\ files' = SSTable_write(files, path, Head(op.chunks))
        /\ compactor_next_id' = compactor_next_id + 1
        /\ op' = [op EXCEPT
               !.chunks = Tail(@),
               !.new = Append(@, SSTable_create_with_level(path, Head(op.chunks),
                                                           op.target_level))]
        /\ pc' = IF Tail(op.chunks) = <<>> THEN "delete_input" ELSE "write_output"
        /\ UNCHANGED <<config, worker, threads, wal_file, wal_writer, memtable, level_manager,
                       next_sstable_id, channel, last_op, logical, restarts>>

\* std::fs::remove_file of one input
CompactDelete ==
    /\ pc = "delete_input"
    /\ files' = FileRemove(files, Head(op.to_delete).file_path)
    /\ op' = [op EXCEPT !.to_delete = Tail(@)]
    /\ pc' = IF Tail(op.to_delete) = <<>> THEN "register" ELSE "delete_input"
    /\ UNCHANGED <<config, worker, threads, wal_file, wal_writer, memtable, level_manager,
                   next_sstable_id, compactor_next_id, channel, last_op, logical, restarts>>

\* merge_sstables has returned: remove_sstables of the inputs, add_sstable of
\* the outputs
CompactRegister ==
    /\ pc = "register"
    /\ level_manager' = add_sstables(remove_sstables(level_manager, op.inputs),
                                     op.new, op.target_level)
    /\ ReturnOk("compact")
    /\ UNCHANGED <<config, worker, threads, files, wal_file, wal_writer, memtable,
                   next_sstable_id, compactor_next_id, channel, logical, restarts>>

\* wal.truncate() returns Err: the flush of the buffer or the opening of
\* wal.log for truncation failed, wal.log is as it was
FlushTruncateFails ==
    /\ pc = "truncate"
    /\ config.enable_wal
    /\ ReturnErr(op.name)
    /\ UNCHANGED <<config, worker, threads, files, wal_file, wal_writer, memtable, level_manager,
                   next_sstable_id, compactor_next_id, channel, logical, restarts>>

\* SSTable::create_with_level of an output returns Err: File::create failed
\* (no file), or the write of the records failed (a file that does not
\* deserialize). merge_sstables and compact_level return the error
CompactWriteFails ==
    /\ pc = "write_output"
    /\ compactor_next_id' = compactor_next_id + 1
    /\ \/ files' = files
       \/ files' = FilePut(files, CompactPath(op.target_level, compactor_next_id), PartialFile)
    /\ ReturnErr("compact")
    /\ UNCHANGED <<config, worker, threads, wal_file, wal_writer, memtable, level_manager,
                   next_sstable_id, channel, logical, restarts>>

NextCompact ==
    \/ Writer
    \/ \E level \in 0..1 : CompactBegin(level)
    \/ CompactWrite
    \/ CompactDelete
    \/ CompactRegister

SpecCompact == InitNoBackground /\ [][NextCompact]_vars

\* The writer thread and compactions by hand on a disk whose writes can fail
NextFailing ==
    \/ NextCompact
    \/ FlushCreateFails
    \/ FlushTruncateFails
    \/ CompactWriteFails

SpecFailing == InitNoBackground /\ [][NextFailing]_vars

\* how far the write of a frame came
Cuts == {"length", "payload"}
WALEntries ==
    {WALInsert(key, value) : key \in Keys, value \in Payloads} \cup {WALDelete(key) : key \in Keys}

\* The writer thread on a WAL whose writes fail or are interrupted by a
\* kill of the process, which is then started again
NextWal ==
    \/ Writer
    \/ \E key \in Keys, value \in Payloads, cut \in Cuts \cup {"none"} : InsertWalFails(key, value, cut)
    \/ \E key \in Keys, cut \in Cuts \cup {"none"} : DeleteWalFails(key, cut)
    \/ \E entry \in WALEntries, cut \in Cuts : AppendInterrupted(entry, cut)
    \/ Restart
    \/ \E written \in BOOLEAN : RestartBuffered(written)

SpecWal == InitNoBackground /\ [][NextWal]_vars

\* ----------------------------------------------------------------------
\* Properties
\* ----------------------------------------------------------------------
\* what get(key) returns for a key by its latest mutation
Expected(key) == IF logical[key][1] = "Data" THEN OkSome(logical[key][2]) ELSE OkNone

\* a call of compact_level, by hand or by the worker, returned Ok in this step
CompactionCompleted ==
    \/ \E level \in 0..1 : ManualCompact(level) /\ last_op'.ok
    \/ BackgroundCheck

\* with_config ran in this step
Reopened == restarts' = restarts + 1

\* the registered SSTables, all levels
Registered == {get_all_sstables(level_manager)[i] : i \in 1..Len(get_all_sstables(level_manager))}

\* the readable SSTable files on disk that hold the record <<key, value>>
FilesHolding(key, value) ==
    {p \in DOMAIN files :
        /\ load_records_ok(files, p)
        /\ \E i \in 1..Len(load_records(files, p)) :
               load_records(files, p)[i] = [key |-> key, value |-> value]}

\* C1: whenever the writer thread is idle, a key whose latest mutation is
\* put(k, v) reads Some(v), wherever older versions of k are stored
C1_LatestPutIsRead ==
    pc = "idle" =>
        \A k \in DOMAIN logical : logical[k][1] = "Data" => Get(k) = OkSome(logical[k][2])

\* C2: whenever the writer thread is idle, a key whose latest mutation is
\* delete(k) reads None, also when an older SSTable still holds a value for k
C2_DeletedReadsNone ==
    pc = "idle" =>
        \A k \in DOMAIN logical : logical[k] = Tombstone => Get(k) = OkNone

\* C3: when the process is killed while the writer thread is idle and the
\* directory is opened again, every key reads as before and as its latest
\* mutation says, and the recovered MemTable is the MemTable of before (no
\* write of an SSTable file has failed)
C3_CrashRecovery ==
    [][(pc = "idle" /\ Reopened /\ \A p \in DOMAIN files : load_records_ok(files, p)) =>
          /\ memtable' = memtable
          /\ \A k \in Keys : Get(k)' = Get(k)
          /\ \A k \in DOMAIN logical : Get(k)' = Expected(k)]_vars

\* C4: when the engine is closed after a final flush and opened again, every
\* key reads what it read at the time of closing
C4_ReopenAfterFlush ==
    [][(pc = "idle" /\ last_op = Returned("flush", TRUE) /\ MemTable_len(memtable) = 0
        /\ Reopened) =>
          \A k \in Keys : Get(k)' = Get(k)]_vars

\* C5: a completed compaction changes the result of get for no key
C5_CompactionKeepsReads ==
    [][CompactionCompleted => \A k \in Keys : Get(k)' = Get(k)]_vars

\* C6: when flush() returns Ok the MemTable is empty, the WAL replays to no
\* entry, and every key readable before the flush reads the same value
C6_FlushKeepsReads ==
    [][(op.name = "flush" /\ pc # "idle" /\ last_op' = Returned("flush", TRUE) /\ pc' = "idle") =>
          /\ MemTable_len(memtable') = 0
          /\ WAL_read_all(wal_file') = <<>>
          /\ \A k \in Keys : op.before[k].tag = "Some" => Get(k)' = op.before[k]]_vars

\* the latest mutation of key is in the WAL or in a readable SSTable file
Durable(key) ==
    LET replayed == replay_entries(MemTable_new, WAL_read_all(wal_file))
    IN  \/ key \in DOMAIN replayed /\ replayed[key] = logical[key]
        \/ FilesHolding(key, logical[key]) # {}

\* the SSTable of the running flush is written to a readable file that holds
\* the entries of the MemTable snapshot, and is registered at level 0
FlushedAndRegistered ==
    /\ op.sstable \in Registered
    /\ op.sstable.file_path = FlushPath(op.first_id)
    /\ load_records_ok(files, op.sstable.file_path)
    /\ \A k \in DOMAIN replay_entries(MemTable_new, WAL_read_all(wal_file)) :
          FilesHolding(k, replay_entries(MemTable_new, WAL_read_all(wal_file))[k]) # {}

\* C7: the WAL is truncated only when the level-0 SSTable of the flush is
\* written and registered; a failed SSTable creation leaves the WAL and the
\* MemTable as they were; and in every state, a crash between two steps of a
\* flush included, the latest mutation the engine returned Ok for is in the
\* WAL or in a readable SSTable file
C7_WalTruncatedAfterSSTable ==
    /\ [](\A k \in DOMAIN logical : Durable(k))
    /\ [][(wal_file # <<>> /\ wal_file' = <<>>) => FlushedAndRegistered]_vars
    /\ [][(pc = "create" /\ pc' = "idle" /\ ~last_op'.ok) =>
             (wal_file' = wal_file /\ memtable' = memtable)]_vars

C9_EmptyFlushIsNoOp ==
    /\ [][(pc = "idle" /\ MemTable_len(memtable) = 0
           /\ (op'.name = "flush" \/ (last_op' = Returned("flush", TRUE) /\ last_op' # last_op))) =>
             /\ pc' = "idle"
             /\ last_op' = Returned("flush", TRUE)
             /\ UNCHANGED <<files, wal_file, memtable, level_manager, next_sstable_id,
                            compactor_next_id, channel>>]_vars
    /\ []((pc = "idle" /\ last_op = Returned("flush", TRUE)) => MemTable_len(memtable) = 0)
    /\ [](\A p \in DOMAIN files : load_records_ok(files, p) => Len(load_records(files, p)) > 0)

\* flush() returned Ok on an engine that never flushed anything
C9_Witness ==
    /\ pc = "idle"
    /\ last_op = Returned("flush", TRUE)
    /\ files = NoFiles
    /\ get_all_sstables(level_manager) = <<>>
    /\ next_sstable_id = 0

\* key is a Data record of the MemTable or of a registered SSTable
HasData(key) ==
    \/ key \in DOMAIN memtable /\ memtable[key][1] = "Data"
    \/ \E sst \in Registered :
          /\ load_records_ok(files, sst.file_path)
          /\ \E i \in 1..Len(load_records(files, sst.file_path)) :
                /\ load_records(files, sst.file_path)[i].key = key
                /\ load_records(files, sst.file_path)[i].value[1] = "Data"

\* the file of some registered SSTable cannot be read
SomeFileUnreadable == \E sst \in Registered : ~load_records_ok(files, sst.file_path)

C11_EmptyKeyRejected ==
    [][((\E value \in Payloads : InsertEmptyKey(value)) \/ DeleteEmptyKey) =>
          /\ pc' = "idle"
          /\ ~last_op'.ok
          /\ UNCHANGED <<wal_file, memtable, level_manager>>]_vars

\* the WAL append of an insert or of a delete returned Err in this step
WalAppendFailed ==
    \/ \E key \in Keys, value \in Payloads, cut \in Cuts \cup {"none"} : InsertWalFails(key, value, cut)
    \/ \E key \in Keys, cut \in Cuts \cup {"none"} : DeleteWalFails(key, cut)

\* the value a WAL entry gives its key
ValueOf(entry) == IF entry.type = "Insert" THEN Data(entry.value) ELSE Tombstone

\* C12: a put or delete whose WAL append fails returns the error and leaves
\* the MemTable and the level manager unchanged; a mutation enters the
\* MemTable only together with its complete frame in the WAL; and the failed
\* mutation is not visible to a later get: as long as no SSTable was written,
\* every get, also after a restart, returns the last acknowledged mutation
C12_FailedAppendNotVisible ==
    [][/\ WalAppendFailed =>
            /\ pc' = "idle"
            /\ ~last_op'.ok
            /\ UNCHANGED <<memtable, level_manager>>
            /\ GetAll' = GetAll
       /\ (memtable' # memtable /\ memtable' # MemTable_new /\ ~Reopened) =>
            /\ wal_file' # wal_file
            /\ ~IsPartial(wal_file'[Len(wal_file')])
            /\ wal_file'[Len(wal_file')].key \in DOMAIN memtable'
            /\ memtable'[wal_file'[Len(wal_file')].key] = ValueOf(wal_file'[Len(wal_file')])
       /\ (pc' = "idle" /\ files' = NoFiles) =>
            \A key \in Keys :
                Get(key)' = IF key \in DOMAIN logical' THEN Expected(key)' ELSE OkNone]_vars

\* the log ends with an incomplete frame and holds only complete frames
\* before it
TrailingPartialFrame(w) ==
    /\ Len(w) > 0
    /\ IsPartial(w[Len(w)])
    /\ \A i \in 1..(Len(w) - 1) : ~IsPartial(w[i])

\* C13: opening the engine on a WAL whose last frame is incomplete, cut in
\* its length prefix or in its payload, succeeds and replays exactly the
\* complete frames before that frame, in append order
C13_TrailingPartialFrameIsEndOfLog ==
    [][(Reopened /\ TrailingPartialFrame(wal_file')) =>
            /\ pc' = "idle"
            /\ last_op' = Returned("open", TRUE)
            /\ memtable' = replay_entries(MemTable_new,
                                          SubSeq(wal_file', 1, Len(wal_file') - 1))]_vars

\* some SSTable file on disk holds a record for the key
OnDisk(key) ==
    \E p \in DOMAIN files :
        \E i \in 1..Len(load_records(files, p)) : load_records(files, p)[i].key = key

\* what the SSTables loaded from the directory give for the key
FromDisk(fs, key) ==
    get_from_sstables(fs,
        get_all_sstables(register_existing(LevelManager_new, load_existing_sstables(fs))), key)

\* C14: with the WAL disabled no WAL is ever written; after the engine is
\* opened again the MemTable is empty, every get returns what the SSTables
\* on disk alone give, and a key that was only in the MemTable reads None
C14_NoWalNoDurability ==
    [][/\ wal_file' = <<>>
       /\ Reopened =>
            /\ last_op' = Returned("open", TRUE)
            /\ memtable' = MemTable_new
            /\ \A key \in Keys :
                  /\ Get(key)' = FromDisk(files', key)
                  /\ (key \in DOMAIN memtable /\ ~OnDisk(key)) => Get(key)' = OkNone]_vars

\* the engine was opened again after a put that reached no SSTable
C14_Witness ==
    /\ ~config.enable_wal
    /\ restarts = 1
    /\ last_op = Returned("open", TRUE)
    /\ memtable = MemTable_new
    /\ \E key \in DOMAIN logical :
          /\ logical[key][1] = "Data"
          /\ ~OnDisk(key)
          /\ Get(key) = OkNone
    /\ \E key \in DOMAIN logical : OnDisk(key)

\* the SSTables compact_level_0_to_1 merges, in the order it merges them
InputsOfLevel0Compaction(lm) ==
    get_sstables_at_level(lm, 0) \o
        (IF get_sstables_at_level(lm, 0) = <<>> THEN <<>>
         ELSE get_overlapping_sstables(lm, 1, MinKeyOf(get_sstables_at_level(lm, 0)),
                                              MaxKeyOf(get_sstables_at_level(lm, 0))))

\* the merged value of every key of the inputs, before any record is dropped
MergedRecords(fs, lm) == load_all_records(fs, EmptyMap, InputsOfLevel0Compaction(lm))

\* the SSTables registered at a level that hold the record <<key, value>>
HoldersAt(lm, fs, level, key, value) ==
    {i \in 1..Len(get_sstables_at_level(lm, level)) :
        \E j \in 1..Len(load_records(fs, get_sstables_at_level(lm, level)[i].file_path)) :
            load_records(fs, get_sstables_at_level(lm, level)[i].file_path)[j] =
                [key |-> key, value |-> value]}

\* C15: a compaction from level 0 into level 1 while deeper levels hold
\* SSTables keeps every key whose merged value is a tombstone: the output at
\* level 1 holds the tombstone, and the key still reads None
C15_TombstonesKeptAboveBottom ==
    [][(ManualCompact(0) /\ last_op'.ok /\ level_manager.max_level > 1) =>
            \A key \in DOMAIN MergedRecords(files, level_manager) :
                MergedRecords(files, level_manager)[key] = Tombstone =>
                    /\ HoldersAt(level_manager', files', 1, key, Tombstone) # {}
                    /\ Get(key)' = OkNone]_vars

\* the SSTables registered at a level that hold a record for the key
KeyHoldersAt(lm, fs, level, key) ==
    {i \in 1..Len(get_sstables_at_level(lm, level)) :
        \E j \in 1..Len(load_records(fs, get_sstables_at_level(lm, level)[i].file_path)) :
            load_records(fs, get_sstables_at_level(lm, level)[i].file_path)[j].key = key}

\* C16: a compaction from level 0 into level 1 while no deeper level holds
\* SSTables leaves no tombstone at level 1 and keeps every key whose merged
\* value is Data; a key whose latest mutation is a delete, all of whose
\* records are in SSTables, has no record in any registered SSTable afterwards
C16_BottomCompactionDropsTombstones ==
    [][(/\ ManualCompact(0)
        /\ last_op'.ok
        /\ level_manager.max_level <= 1
        /\ get_sstables_at_level(level_manager, 0) # <<>>) =>
            /\ \A key \in Keys : HoldersAt(level_manager', files', 1, key, Tombstone) = {}
            /\ \A key \in DOMAIN MergedRecords(files, level_manager) :
                  MergedRecords(files, level_manager)[key][1] = "Data" =>
                      KeyHoldersAt(level_manager', files', 1, key) # {}
            /\ \A key \in DOMAIN logical :
                  (logical[key] = Tombstone /\ key \notin DOMAIN memtable) =>
                      \A level \in 0..level_manager'.max_level :
                          KeyHoldersAt(level_manager', files', level, key) = {}]_vars

\* C17: after the engine is opened, the next sequence number of the flush
\* and the next sequence number of the compactor are greater than the
\* sequence number of every SSTable file in the directory, whichever of the
\* two forms its name has
C17_NextIdAboveExistingFiles ==
    [][(Reopened /\ last_op' = Returned("open", TRUE)) =>
            \A p \in DOMAIN files' :
                /\ next_sstable_id' > p.seq
                /\ compactor_next_id' > p.seq]_vars

\* the level at which the level manager holds the file, none when it does not
LevelsOf(lm, path) ==
    {level \in DOMAIN lm.levels :
        \E i \in 1..Len(lm.levels[level]) : lm.levels[level][i].file_path = path}

\* C18: when the engine is dropped between two calls and opened again, every
\* SSTable file is registered at the level it was registered at before
C18_LevelsSurviveRestart ==
    [][(Reopened /\ pc = "idle" /\ last_op' = Returned("open", TRUE)) =>
            \A p \in DOMAIN files :
                LevelsOf(level_manager, p) # {} =>
                    LevelsOf(level_manager', p) = LevelsOf(level_manager, p)]_vars

FlushedAtLevel0(lm) ==
    LET IsFlushFile(sst) == sst.file_path.form = "sstable_"
    IN  SelectSeq(get_sstables_at_level(lm, 0), IsFlushFile)

\* C20: the list of level 0 is newest-first: of two SSTables written by
\* flushes, the one with the greater sequence number comes first, and
\* get_all_sstables returns them in that order
C20_Level0NewestFirst ==
    /\ \A i, j \in 1..Len(FlushedAtLevel0(level_manager)) :
          i < j => FlushedAtLevel0(level_manager)[i].file_path.seq >
                   FlushedAtLevel0(level_manager)[j].file_path.seq
    /\ SubSeq(get_all_sstables(level_manager), 1,
              Len(get_sstables_at_level(level_manager, 0))) =
          get_sstables_at_level(level_manager, 0)

\* the SSTable handles the engine holds: the registered ones and the one a
\* running flush has created
Handles ==
    Registered \cup (IF pc \in {"add", "clear", "truncate"} THEN {op.sstable} ELSE {})

\* the keys stored in the file of a handle
KeysStored(sst) ==
    IF sst.file_path \in DOMAIN files
    THEN {load_records(files, sst.file_path)[i].key :
             i \in 1..Len(load_records(files, sst.file_path))}
    ELSE {}

\* C21: for every SSTable handle, created by a flush, created by a compaction
\* or opened from disk, might_contain is true for every key stored in its file
C21_BloomHasNoFalseNegatives ==
    \A sst \in Handles : \A key \in KeysStored(sst) : SSTable_might_contain(sst, key)

\* after a restart the engine holds a handle created by a compaction at
\* level 1 and a handle created by a flush at level 0, both with stored keys
C21_Witness ==
    /\ restarts = 1
    /\ pc = "idle"
    /\ \E sst \in Registered :
          sst.level = 1 /\ sst.file_path.form = "sstable_L" /\ KeysStored(sst) # {}
    /\ \E sst \in Registered :
          sst.level = 0 /\ sst.file_path.form = "sstable_" /\ KeysStored(sst) = Keys

\* C22: when the engine is closed, the worker has been told to stop and has
\* been joined, so it runs no more and consumes no message afterwards, and
\* every entry of a non-empty MemTable is in a registered SSTable file of
\* level 0 when close returns
C22_CloseStopsWorkerAndFlushes ==
    [][/\ DropEngine =>
            /\ worker' # "running"
            /\ \A key \in DOMAIN memtable :
                  HoldersAt(level_manager', files', 0, key, memtable[key]) # {}
       /\ pc = "closed" => ~BackgroundCheck]_vars

\* no call is running, the worker has no message to receive and finds no
\* level to compact
Quiescent ==
    /\ pc = "idle"
    /\ channel = 0
    /\ LevelsToCompact(level_manager) = {}

\* C23: with a fair worker, a level 0 that holds level_0_file_limit SSTables
\* or more is eventually compacted; and in a quiescent state level 0 holds at
\* most level_0_file_limit SSTables and every key whose last mutation is a put
\* reads the value of that put
C23_WorkerReachesQuiescence ==
    /\ should_compact(level_manager, 0) ~> ~should_compact(level_manager, 0)
    /\ [](Quiescent =>
            /\ Len(get_sstables_at_level(level_manager, 0)) <= level_0_file_limit
            /\ \A key \in DOMAIN logical :
                  logical[key][1] = "Data" => Get(key) = Expected(key))

LocksOf(held) == {g[1] : g \in held}
\* some threads wait for each other's guards and for nothing else
Deadlocked ==
    \E waiting \in SUBSET Threads \ {{}} :
        \A t \in waiting : Blockers(t) # {} /\ Blockers(t) \subseteq waiting

\* C25: a thread that takes a lock while it holds another one takes them in
\* the order WAL, MemTable, level manager (the worker: level manager, then
\* compactor), and the threads of insert, delete, get, flush and stats never
\* deadlock with each other or with the worker
C25_LockOrderAndNoDeadlock ==
    /\ [][\A t \in Threads :
              \A taken \in LocksOf(threads'[t].held) \ LocksOf(threads[t].held) :
                  \A lock \in LocksOf(threads[t].held) : LockRank[lock] < LockRank[taken]]_vars
    /\ []~Deadlocked

\* stats holds the MemTable and waits for the level manager, which the worker
\* holds together with the compactor, while the writer is in a flush
C25_Witness ==
    /\ threads["reader"].call = "stats"
    /\ threads["reader"].held = {<<"memtable", "read">>}
    /\ Blockers("reader") = {"worker"}
    /\ LocksOf(threads["worker"].held) = {"level_manager", "leveled_compactor"}
    /\ threads["writer"].call = "insert"
    /\ Blockers("writer") # {}

\* merge_sstables is between its first output and its return
Compacting == pc \in {"write_output", "delete_input", "register"}

\* C26: a compaction removes an input file only when all its outputs are
\* written and on disk, and at every step of a compaction every record that
\* was readable before it (the latest value of a key, read from the SSTables)
\* is in some SSTable file on disk
C26_InputsOutliveOutputs ==
    /\ [][CompactDelete =>
              /\ op.chunks = <<>>
              /\ \A i \in 1..Len(op.new) : load_records_ok(files, op.new[i].file_path)]_vars
    /\ [](Compacting =>
              \A key \in DOMAIN logical \ DOMAIN memtable :
                  (op.before[key].tag = "Some" /\ op.before[key] = Expected(key)) =>
                      FilesHolding(key, Data(op.before[key].val)) # {})

\* a flush or a compaction returns Err in this step
AttemptFails == FlushCreateFails \/ FlushTruncateFails \/ CompactWriteFails

\* C27: when a flush or a compaction fails at one of its steps (the creation
\* of the SSTable, the truncation of the WAL, the write of a compaction
\* output), the MemTable and the registered SSTables are what they were when
\* the attempt began, and every get returns what it returned then
C27_FailedAttemptChangesNothing ==
    [][AttemptFails =>
           /\ memtable' = op.entry.memtable
           /\ level_manager' = op.entry.level_manager
           /\ \A key \in Keys : Get(key)' = op.entry.get[key]]_vars

\* the value the file of an SSTable holds for the key
RecordValue(fs, sst, key) ==
    LET records == load_records(fs, sst.file_path)
    IN  records[CHOOSE i \in 1..Len(records) : records[i].key = key].value

\* the SSTables among the inputs whose file holds a record for the key
InputsHolding(fs, sstables, key) ==
    {i \in 1..Len(sstables) :
        \E j \in 1..Len(load_records(fs, sstables[i].file_path)) :
            load_records(fs, sstables[i].file_path)[j].key = key}

\* the record of the newest input that holds the key: of the level-0 SSTable
\* flushed last if level 0 holds the key, of level 1 otherwise
NewestVariant(fs, lm, key) ==
    LET level_0 == get_sstables_at_level(lm, 0)
        at_0 == InputsHolding(fs, level_0, key)
        inputs == InputsOfLevel0Compaction(lm)
    IN  IF at_0 # {}
        THEN RecordValue(fs, level_0[CHOOSE i \in at_0 :
                 \A j \in at_0 : level_0[j].file_path.seq <= level_0[i].file_path.seq], key)
        ELSE RecordValue(fs, inputs[CHOOSE i \in InputsHolding(fs, inputs, key) : TRUE], key)

\* C28: after a compaction of level 0, for every key of the inputs level 1
\* holds the record of the newest input: level 0 before level 1, and within
\* level 0 the SSTable flushed later (a tombstone may be dropped instead)
C28_MergeKeepsNewestVariant ==
    [][(ManualCompact(0) /\ last_op'.ok) =>
           \A key \in Keys :
               InputsHolding(files, InputsOfLevel0Compaction(level_manager), key) # {} =>
                   LET newest == NewestVariant(files, level_manager, key)
                   IN  /\ newest[1] = "Data" =>
                             HoldersAt(level_manager', files', 1, key, newest) # {}
                       /\ \A s \in Payloads :
                             Data(s) # newest =>
                                 HoldersAt(level_manager', files', 1, key, Data(s)) = {}]_vars

\* the records of the files of the SSTables, one file after the other
RECURSIVE RecordsOfAll(_, _)
RecordsOfAll(fs, sstables) ==
    IF sstables = <<>> THEN <<>>
    ELSE load_records(fs, Head(sstables).file_path) \o RecordsOfAll(fs, Tail(sstables))

\* the value of the key in the last input of the list that holds it
LastValue(fs, sstables, key) ==
    RecordValue(fs, sstables[SetMax(InputsHolding(fs, sstables, key))], key)

\* the keys of the inputs whose last value is not a tombstone
LiveKeys(fs, sstables) ==
    {key \in Keys : /\ InputsHolding(fs, sstables, key) # {}
                    /\ LastValue(fs, sstables, key) # Tombstone}

\* C29: the SSTables merge_sstables returns hold exactly the keys of the
\* inputs whose merged value is not a tombstone, each key once, with the
\* value of the last input of the list that holds the key
C29_MergeIsUnionLastWins ==
    [][\A level \in 0..1 :
           (ManualCompact(level) /\ last_op'.ok /\ MergeInputs(level_manager, level) # <<>>) =>
               LET sstables == MergeInputs(level_manager, level)
                   merged == merge_sstables(files, compactor_next_id, sstables, level + 1)
                   out == RecordsOfAll(merged.files, merged.new)
               IN  /\ files' = merged.files
                   /\ \A i \in 1..Len(merged.new) :
                          load_records_ok(merged.files, merged.new[i].file_path)
                   /\ {out[i].key : i \in 1..Len(out)} = LiveKeys(files, sstables)
                   /\ Len(out) = Cardinality(LiveKeys(files, sstables))
                   /\ \A i \in 1..Len(out) :
                          out[i].value = LastValue(files, sstables, out[i].key)]_vars

\* the registered SSTables whose handle says level 0
Level0Registered == {sst \in Registered : sst.level = 0}

\* C30: should_compact(0) is true exactly when level 0 holds at least
\* level_0_file_limit SSTables, false when there is no level 0, and
\* get_compaction_candidates(0) returns every SSTable of level 0
C30_Level0Trigger ==
    /\ should_compact(level_manager, 0) <=>
           Cardinality(Level0Registered) >= level_0_file_limit
    /\ 0 \notin DOMAIN level_manager.levels => ~should_compact(level_manager, 0)
    /\ LET candidates == get_compaction_candidates(level_manager, 0)
       IN  /\ {candidates[i] : i \in 1..Len(candidates)} = Level0Registered
           /\ Len(candidates) = Cardinality(Level0Registered)

\* level 0 holds exactly level_0_file_limit SSTables and is due, with
\* mutations waiting in the MemTable
C30_Witness ==
    /\ Len(get_compaction_candidates(level_manager, 0)) = level_0_file_limit
    /\ should_compact(level_manager, 0)
    /\ memtable # MemTable_new
    /\ pc = "idle"

\* max_size(1) = 10 * 2^20, max_size(L) = max_size(1) * multiplier^(L-1)
MaxSizeOf(level) == 10 * 1024 * 1024 * Pow(level_size_multiplier, level - 1)

\* C31: a level L >= 1 needs compaction exactly when its record count
\* exceeds max_size(L), not when it equals it, and its compaction candidates
\* are the whole level when it needs compaction and nothing otherwise
C31_DeepLevelTrigger ==
    \A level \in 1..MaxLevel :
        /\ should_compact(level_manager, level) <=>
               get_level_size(level_manager, level) > MaxSizeOf(level)
        /\ get_compaction_candidates(level_manager, level) =
               IF should_compact(level_manager, level)
               THEN get_sstables_at_level(level_manager, level) ELSE <<>>

\* the keys of the closed range [lo, hi]
KeyRange(lo, hi) == {key \in Keys : lo <= key /\ key <= hi}

\* the registered SSTables of the level whose key range meets [min_key, max_key]
Meeting(level, min_key, max_key) ==
    {sst \in Registered :
        /\ sst.level = level
        /\ KeyRange(sst.min_key, sst.max_key) \cap KeyRange(min_key, max_key) # {}}

\* C32: get_overlapping_sstables(L, min, max) returns exactly the SSTables of
\* level L whose closed key range meets the closed range [min, max], one
\* touching it at a boundary key included, and nothing of another level
C32_OverlappingIsRangeIntersection ==
    \A level \in 0..MaxLevel, min_key \in Keys, max_key \in Keys :
        min_key <= max_key =>
            LET overlapping == get_overlapping_sstables(level_manager, level, min_key, max_key)
            IN  /\ {overlapping[i] : i \in 1..Len(overlapping)} = Meeting(level, min_key, max_key)
                /\ Len(overlapping) = Cardinality(Meeting(level, min_key, max_key))

\* level 1 holds an SSTable that ends where the asked range begins and one
\* that lies below the range, and the other levels hold SSTables in the range
C32_Witness ==
    /\ Len(get_sstables_at_level(level_manager, 1)) = MaxPerLevel
    /\ \E sst \in Registered : sst.level = 1 /\ sst.min_key < MaxKey /\ sst.max_key = MaxKey
    /\ \E sst \in Registered : sst.level = 1 /\ sst.max_key < MaxKey
    /\ Len(get_overlapping_sstables(level_manager, 1, MaxKey, MaxKey)) = 1
    /\ get_overlapping_sstables(level_manager, 0, MaxKey, MaxKey) # <<>>
    /\ get_overlapping_sstables(level_manager, MaxLevel, MaxKey, MaxKey) # <<>>

\* C33: after any sequence of add_sstable and remove_sstables no level of the
\* map has an empty list, max_level is the greatest level that holds an
\* SSTable (0 when there is none), and an SSTable stored under level L
\* reports level L
C33_LevelMapWellFormed ==
    /\ \A level \in DOMAIN level_manager.levels :
          /\ level_manager.levels[level] # <<>>
          /\ \A i \in 1..Len(level_manager.levels[level]) :
                 level_manager.levels[level][i].level = level
    /\ level_manager.max_level =
           IF DOMAIN level_manager.levels = {} THEN 0
           ELSE CHOOSE top \in DOMAIN level_manager.levels :
                    \A level \in DOMAIN level_manager.levels : level <= top

\* remove_sstables has emptied a level: level 1 is the only level left
C33_Witness ==
    /\ last_op = Returned("remove_sstables", TRUE)
    /\ DOMAIN level_manager.levels = {1}
    /\ level_manager.max_level = 1


\* the first level, from level 0 down, that the level manager reports as due
IsFirstDue(level) ==
    /\ level \in 0..level_manager.max_level
    /\ should_compact(level_manager, level)
    /\ \A above \in 0..(level - 1) : ~should_compact(level_manager, above)

RegisteredPaths == {sst.file_path : sst \in Registered}

\* C35: a compaction commits in this order: the outputs are registered and the
\* inputs unregistered first, and only then are the input files deleted, so a
\* step that deletes a file deletes one that is no longer registered, and in
\* no state does a registered SSTable refer to a file that is not on disk
C35_UnregisteredBeforeDeleted ==
    /\ [][\A path \in (DOMAIN files) \ (DOMAIN files') : path \notin RegisteredPaths]_vars
    /\ [](RegisteredPaths \subseteq DOMAIN files)


\* C36: every SSTable file a flush or a compaction creates gets a path that
\* no file of the directory has, restarts in between included, and the path
\* of a compaction's output is never the path of one of its inputs
C36_NewSSTablePathIsUnused ==
    [][/\ FlushCreate => FlushPath(next_sstable_id) \notin DOMAIN files
       /\ \A level \in 0..1 : ManualCompact(level) =>
              \A id \in compactor_next_id..(compactor_next_id' - 1) :
                  /\ CompactPath(level + 1, id) \notin DOMAIN files
                  /\ \A i \in 1..Len(MergeInputs(level_manager, level)) :
                         MergeInputs(level_manager, level)[i].file_path #
                             CompactPath(level + 1, id)]_vars


\* open, put, delete or flush has returned Ok and nothing has been started
\* since
ReturnedOk ==
    /\ pc = "idle"
    /\ last_op.ok
    /\ last_op.name \in {"open", "insert", "delete", "flush"}

\* C37: with the WAL enabled, after every open, put, delete and flush that
\* returns successfully the WAL can be read and its replay into an empty
\* MemTable gives exactly the current MemTable: the entries written after a
\* truncation are replayed, the entries before it are not
C37_WalReplaysToMemTable ==
    (config.enable_wal /\ ReturnedOk) =>
        /\ WAL_read_all_ok(wal_file)
        /\ replay_entries(MemTable_new, WAL_read_all(wal_file)) = memtable


\* C38: once a flush or a compaction has completed, the .sst files of the
\* directory are exactly the files of the registered SSTables: no input of a
\* compaction is left on disk after it was unregistered, no registered
\* SSTable is without its file
C38_FilesAreRegisteredSSTables ==
    (pc = "idle" /\ last_op.ok) => DOMAIN files = RegisteredPaths


\* C39: once the LSMTree has been dropped without a shutdown, its Sender
\* gone and the channel disconnected, the worker thread eventually
\* terminates
C39_WorkerTerminatesAfterDrop == (pc = "closed") ~> (worker # "running")


\* the SSTables the worker merges when it wakes in this state
WorkerInputs ==
    IF LevelsToCompact(level_manager) = {} THEN {}
    ELSE LET sstables == MergeInputs(level_manager, FirstLevelToCompact(level_manager))
         IN  {sstables[i] : i \in 1..Len(sstables)}

\* C40: with flushes and compactions of the worker interleaved, no SSTable a
\* flush has registered is lost: flush_memtable's add_sstable leaves its
\* SSTable registered at level 0 beside the ones that were there, and an
\* SSTable is unregistered only by a compaction of the worker that merges it
C40_FlushedSSTablesStayRegistered ==
    [][/\ FlushAdd => Registered' = Registered \cup {op.sstable}
       /\ FlushAdd => op.sstable \in
              {get_sstables_at_level(level_manager', 0)[i] :
                  i \in 1..Len(get_sstables_at_level(level_manager', 0))}
       /\ \A sst \in Registered \ Registered' :
              BackgroundCheck /\ sst \in WorkerInputs]_vars

\* the worker has compacted level 0, the SSTable of the running flush
\* included, between two statements of flush_memtable
C40_Witness ==
    /\ pc \in {"clear", "truncate"}
    /\ op.sstable \notin Registered
    /\ op.sstable.file_path \notin DOMAIN files
    /\ get_sstables_at_level(level_manager, 0) = <<>>
    /\ get_sstables_at_level(level_manager, 1) # <<>>

=======================================================================
